---------------------------- MODULE Spec2Model ----------------------------
(***************************************************************************)
(* A model of the project/task management application: the two admin      *)
(* edge functions (admin-create-user, admin-delete-user), the task         *)
(* mutation hooks with their in-app notification writes, and the           *)
(* send-task-notification edge function, over the tables and row-level     *)
(* policies of the migration; and, in the browser, the cached queries, the *)
(* realtime channel, the local-storage data layer, AuthProvider, the       *)
(* project edit dialog and the attachment hooks.                           *)
(*                                                                         *)
(* Every `await` on the backend is a separate step of a request, so that   *)
(* requests interleave as they do on the platform.  A backend call may     *)
(* fail for reasons outside the program (network, upstream outage): such  *)
(* a failure is an input of the step (\E fail \in BOOLEAN) and is recorded *)
(* in the request's `upstream` field.                                      *)
(***************************************************************************)
EXTENDS Integers, Sequences, FiniteSets, TLC

VARIABLES
    authUsers,       \* auth.users: the set of user ids
    nextUserId,      \* the next id auth.admin.createUser hands out (ids are never reused)
    profiles,        \* public.profiles: a set of rows
    userRoles,       \* public.user_roles: a set of rows [user_id, role]
    req,             \* the admin edge functions' requests in flight, one record per slot
    projects,        \* public.projects: a set of rows [id, owner_id]
    projectMembers,  \* public.project_members: a set of rows [project_id, user_id]
    tasks,           \* public.tasks: a set of rows [id, project_id, assignee_id, status]
    nextTaskId,      \* the next tasks.id (ids are never reused)
    notificationSettings, \* public.notification_settings: a set of rows, user_id unique
    notifications,   \* public.notifications: a set of rows (`by` stands for the row id)
    sav,             \* useUpdateNotificationSettings calls in flight, one record per slot
    session,         \* the signed-in user of each browser client
    cache,           \* each client's cached ['tasks'] query result
    op,              \* each client's task mutation (useCreateTask / useUpdateTask)
    mreq,            \* send-task-notification requests, one record per slot
    emailsSent,      \* the messages resend.emails.send accepted
    emailLogs,       \* public.email_logs: a set of rows (`by` stands for the row id)
    stmt,            \* the last statement a browser sent to the REST interface, and its result
    nextProjectId,   \* the next projects.id (ids are never reused)
    now,             \* the database server's clock, now()
    taskTimes,       \* tasks.created_at / tasks.updated_at: a set of rows [id, created_at, updated_at]
    channel,         \* each client's 'tasks-changes' realtime channel
    query,           \* each client's ['tasks'] query: its status and the response in flight
    qcache,          \* each user's browser: the cached role and project-member queries
    ls,              \* localStorage['project_management_data'].users, and the uuids handed out
    lsResult,        \* the last call of the local-storage data layer and what it returned
    authState,       \* AuthProvider's authState
    authSession,     \* the session supabase.auth holds in the browser (a user id, or NULL)
    authCalls,       \* updateAuthState calls, one record per slot
    logoutPc,        \* where AuthProvider's logout() is
    dialog,          \* the Projects page's ProjectFormDialog
    taskAttachments, \* public.task_attachments: a set of rows
    objects,         \* the paths of the objects in the task-attachments bucket
    nextAttachmentId \* the next task_attachments.id

adminVars == <<authUsers, nextUserId, profiles, userRoles, req>>

projectVars == <<projects, projectMembers>>

settingsVars == <<notificationSettings, sav>>

taskVars == <<tasks, nextTaskId, notifications, session, cache, op>>

mailVars == <<mreq, emailsSent, emailLogs>>

accessVars == <<stmt, nextProjectId>>

stampVars == <<now, taskTimes>>

realtimeVars == <<channel, query>>

cacheVars == <<qcache>>

storageVars == <<ls, lsResult>>

authVars == <<authState, authSession, authCalls, logoutPc>>

dialogVars == <<dialog>>

attachVars == <<taskAttachments, objects, nextAttachmentId>>

pageVars == <<authVars, dialogVars, attachVars>>

extVars == <<accessVars, stampVars, realtimeVars, cacheVars, storageVars, pageVars>>

vars == <<adminVars, projectVars, settingsVars, taskVars, mailVars, extVars>>

-----------------------------------------------------------------------------
(* Bounds *)

MaxUsers == 3        \* user ids are 1..MaxUsers
InitialUsers == 2    \* users that exist before the first request
MaxReqs == 2         \* admin edge-function requests (slots) in one behaviour
MaxSavers == 2       \* useUpdateNotificationSettings calls in one behaviour
MaxClients == 2      \* browser clients, each running one task mutation
MaxTasks == 3        \* task ids are 1..MaxTasks
MaxMails == 2        \* send-task-notification requests in one behaviour

NULL == 0            \* SQL NULL / JS null for a user id

Users == 1..MaxUsers
ReqIds == 1..MaxReqs
SaverIds == 1..MaxSavers
Clients == 1..MaxClients
TaskIds == 1..MaxTasks

MaxProjects == 2

ProjectIds == 1..MaxProjects
MailIds == 1..MaxMails

-----------------------------------------------------------------------------
(* Tables and the PostgREST result modifiers *)

Roles == {"admin", "user"}

RoleRow(u, r) == [user_id |-> u, role |-> r]

NoRoleRow == [user_id |-> NULL, role |-> "null"]

ProfileRow(u) == [user_id |-> u, email |-> u, name |-> u, is_active |-> TRUE]

\* .single(): the one row, or an error when the rows are not exactly one.
Single(rows, none) ==
    IF Cardinality(rows) = 1
    THEN [error |-> FALSE, data |-> CHOOSE x \in rows : TRUE]
    ELSE [error |-> TRUE, data |-> none]

\* has_role(_user_id, _role)
has_role(u, r) == \E row \in userRoles : row.user_id = u /\ row.role = r

\* is_admin(_user_id)
is_admin(u) == has_role(u, "admin")

AdminRows == {row \in userRoles : row.role = "admin"}

\* ON DELETE CASCADE from auth.users
CascadeRoles(u) == {row \in userRoles : row.user_id # u}
CascadeProfiles(u) == {row \in profiles : row.user_id # u}

\* projects.owner_id ON DELETE CASCADE
CascadeProjects(u) == {row \in projects : row.owner_id # u}

\* project_members.user_id and project_members.project_id ON DELETE CASCADE
CascadeMembers(u) ==
    {row \in projectMembers :
        /\ row.user_id # u
        /\ \E p \in CascadeProjects(u) : p.id = row.project_id}

\* tasks.project_id ON DELETE CASCADE, tasks.assignee_id ON DELETE SET NULL
CascadeTasks(u) ==
    {IF row.assignee_id = u THEN [row EXCEPT !.assignee_id = NULL] ELSE row :
        row \in {t \in tasks : \E p \in CascadeProjects(u) : p.id = t.project_id}}

\* notifications.user_id ON DELETE CASCADE
CascadeNotifications(u) == {n \in notifications : n.user_id # u}

\* email_logs.to_user_id ON DELETE CASCADE
CascadeEmailLogs(u) == {n \in emailLogs : n.to_user_id # u}

\* handle_new_user(): the trigger on auth.users
NewUserProfiles(u) == profiles \cup {ProfileRow(u)}
NewUserRoles(u) == userRoles \cup {RoleRow(u, "user")}

-----------------------------------------------------------------------------
(* The admin edge functions: admin-create-user and admin-delete-user *)

\* The Authorization header: absent (hdr = FALSE), or a bearer token whose
\* subject is a user id (sub = NULL: a token that resolves to nobody).
Tokens == [hdr : BOOLEAN, sub : Users \cup {NULL}]

\* The JSON body (json = FALSE: req.json() throws).  delete-user reads userId;
\* create-user reads email, password, name (TRUE: present and non-empty) and role.
Body(j, u, e, p, n, r) ==
    [json |-> j, userId |-> u, email |-> e, password |-> p, name |-> n, role |-> r]

DeleteBodies ==
    {Body(FALSE, NULL, FALSE, FALSE, FALSE, "user")}
        \cup {Body(TRUE, u, FALSE, FALSE, FALSE, "user") : u \in Users \cup {NULL}}

CreateBodies ==
    {Body(FALSE, NULL, FALSE, FALSE, FALSE, "user"),
     Body(TRUE, NULL, FALSE, TRUE, TRUE, "user"),
     Body(TRUE, NULL, TRUE, FALSE, TRUE, "user"),
     Body(TRUE, NULL, TRUE, TRUE, FALSE, "admin"),
     Body(TRUE, NULL, TRUE, TRUE, TRUE, "user"),
     Body(TRUE, NULL, TRUE, TRUE, TRUE, "admin")}

IdleReq ==
    [kind |-> "none", pc |-> "idle", token |-> [hdr |-> FALSE, sub |-> NULL],
     body |-> Body(FALSE, NULL, FALSE, FALSE, FALSE, "user"),
     currentUser |-> NULL, roleData |-> "null", admins |-> -1,
     targetUserRole |-> "null", newUser |-> NULL, acted |-> FALSE,
     status |-> 0, error |-> "", calls |-> <<>>, upstream |-> FALSE]

Respond(rq, status, error) ==
    [rq EXCEPT !.pc = "done", !.status = status, !.error = error]

Called(rq, call) == [rq EXCEPT !.calls = Append(@, call)]

Failed(rq, fail) == [rq EXCEPT !.upstream = @ \/ fail]

\* A handler that does not look at the Authorization header.
AuthHeaderMissing_Never(token) == FALSE

\* if (!authHeader)
AuthHeaderMissing(token) == ~token.hdr

\* userClient.auth.getUser(): the token's user, while that user exists
GetUser(token, fail) ==
    IF fail \/ token.sub \notin authUsers
    THEN [error |-> TRUE, user |-> NULL]
    ELSE [error |-> FALSE, user |-> token.sub]

\* A handler that does not stop on an unresolved token.
UserCheckFails_NoStop(userError, currentUser) == FALSE

\* if (userError || !currentUser)
UserCheckFails(userError, currentUser) == userError \/ currentUser = NULL

\* A handler that stops on a failed lookup only and does not compare the role.
RoleCheckFails_ErrorOnly(roleError, role) == roleError

\* if (roleError || roleData?.role !== 'admin')
RoleCheckFails(roleError, role) == roleError \/ role # "admin"

\* if (!email || !password || !name)
CreateFieldsMissing(body) == ~body.email \/ ~body.password \/ ~body.name

\* A handler without the self-deletion check.
IsSelfDeletion_Never(userId, currentUser) == FALSE

\* if (userId === currentUser.id)
IsSelfDeletion(userId, currentUser) == userId = currentUser

\* The last-admin check off by one.
IsLastAdmin_OffByOne(targetRole, adminCount) == targetRole = "admin" /\ adminCount < 1

\* if (targetUserRole?.role === 'admin' && admins.length <= 1)
IsLastAdmin(targetRole, adminCount) == targetRole = "admin" /\ adminCount <= 1

\* The request arrives; the handler runs up to its first await.
Receive(r) ==
    /\ req[r].pc = "idle"
    /\ \E kind \in {"create", "delete"}, token \in Tokens :
         \E body \in (IF kind = "create" THEN CreateBodies ELSE DeleteBodies) :
           LET rq == [IdleReq EXCEPT !.kind = kind, !.token = token, !.body = body]
           IN req' = [req EXCEPT ![r] =
                        IF AuthHeaderMissing(token)
                        THEN Respond(rq, 401, "No authorization header")
                        ELSE [rq EXCEPT !.pc = "getUser"]]
    /\ UNCHANGED <<authUsers, nextUserId, profiles, userRoles>>
    /\ UNCHANGED <<projectVars, settingsVars, taskVars, mailVars>>
    /\ UNCHANGED extVars

\* const { data: { user: currentUser }, error: userError } = await userClient.auth.getUser()
GetCurrentUser(r) ==
    /\ req[r].pc = "getUser"
    /\ \E fail \in BOOLEAN :
         LET res == GetUser(req[r].token, fail)
             rq == Failed(Called(req[r], "getUser"), fail)
         IN req' = [req EXCEPT ![r] =
                      IF UserCheckFails(res.error, res.user)
                      THEN Respond(rq, 401, "Unauthorized")
                      ELSE [rq EXCEPT !.pc = "roleLookup", !.currentUser = res.user]]
    /\ UNCHANGED <<authUsers, nextUserId, profiles, userRoles>>
    /\ UNCHANGED <<projectVars, settingsVars, taskVars, mailVars>>
    /\ UNCHANGED extVars

\* adminClient.from('user_roles').select('role').eq('user_id', currentUser.id).single()
CheckCallerRole(r) ==
    /\ req[r].pc = "roleLookup"
    /\ \E fail \in BOOLEAN :
         LET found == Single({row \in userRoles : row.user_id = req[r].currentUser},
                             NoRoleRow)
             res == IF fail THEN [error |-> TRUE, data |-> NoRoleRow] ELSE found
             rq == Failed(Called(req[r], "roleLookup"), fail)
         IN req' = [req EXCEPT ![r] =
                      IF RoleCheckFails(res.error, res.data.role)
                      THEN Respond([rq EXCEPT !.roleData = res.data.role], 403,
                                   IF rq.kind = "create"
                                   THEN "Only admins can create users"
                                   ELSE "Only admins can delete users")
                      ELSE [rq EXCEPT !.pc = "parseBody", !.roleData = res.data.role]]
    /\ UNCHANGED <<authUsers, nextUserId, profiles, userRoles>>
    /\ UNCHANGED <<projectVars, settingsVars, taskVars, mailVars>>
    /\ UNCHANGED extVars

\* await req.json() and the validation that follows it
ParseBody(r) ==
    /\ req[r].pc = "parseBody"
    /\ LET rq == req[r]
           body == rq.body
       IN req' = [req EXCEPT ![r] =
            IF ~body.json THEN Respond(rq, 500, "exception")
            ELSE IF rq.kind = "create"
                 THEN IF CreateFieldsMissing(body)
                      THEN Respond(rq, 400, "Email, password, and name are required")
                      ELSE [rq EXCEPT !.pc = "createUser"]
                 ELSE IF body.userId = NULL
                      THEN Respond(rq, 400, "User ID is required")
                      ELSE IF IsSelfDeletion(body.userId, rq.currentUser)
                           THEN Respond(rq, 400, "Cannot delete your own account")
                           ELSE [rq EXCEPT !.pc = "countAdmins"]]
    /\ UNCHANGED <<authUsers, nextUserId, profiles, userRoles>>
    /\ UNCHANGED <<projectVars, settingsVars, taskVars, mailVars>>
    /\ UNCHANGED extVars

\* adminClient.from('user_roles').select('user_id').eq('role', 'admin')
CountAdmins(r) ==
    /\ req[r].pc = "countAdmins"
    /\ \E fail \in BOOLEAN :
         LET rq == Failed(Called(req[r], "countAdmins"), fail)
         IN req' = [req EXCEPT ![r] =
                      IF fail
                      THEN Respond(rq, 500, "Failed to check admin count")
                      ELSE [rq EXCEPT !.pc = "targetRole",
                                      !.admins = Cardinality(AdminRows)]]
    /\ UNCHANGED <<authUsers, nextUserId, profiles, userRoles>>
    /\ UNCHANGED <<projectVars, settingsVars, taskVars, mailVars>>
    /\ UNCHANGED extVars

\* adminClient.from('user_roles').select('role').eq('user_id', userId).single()
\* (its error is not read), then the last-admin check
ReadTargetRole(r) ==
    /\ req[r].pc = "targetRole"
    /\ \E fail \in BOOLEAN :
         LET found == Single({row \in userRoles : row.user_id = req[r].body.userId},
                             NoRoleRow)
             role == IF fail THEN "null" ELSE found.data.role
             rq == [Failed(Called(req[r], "targetRole"), fail)
                      EXCEPT !.targetUserRole = role]
         IN req' = [req EXCEPT ![r] =
                      IF IsLastAdmin(role, rq.admins)
                      THEN Respond(rq, 400, "Cannot delete the last admin user")
                      ELSE [rq EXCEPT !.pc = "deleteUser"]]
    /\ UNCHANGED <<authUsers, nextUserId, profiles, userRoles>>
    /\ UNCHANGED <<projectVars, settingsVars, taskVars, mailVars>>
    /\ UNCHANGED extVars

\* The realtime events of the publication: one per changed row of tasks.
EventTypes == {"INSERT", "UPDATE", "DELETE"}

NoEvents == [e \in EventTypes |-> 0]

IdleChannel == [subscribed |-> FALSE, pending |-> NoEvents]

\* ALTER PUBLICATION supabase_realtime ADD TABLE public.tasks: n rows of tasks
\* changed by a statement; every subscribed channel is owed n events.
PublishOn(ch, type, n) ==
    [c \in Clients |->
        IF ch[c].subscribed
        THEN [ch[c] EXCEPT !.pending[type] = @ + n]
        ELSE ch[c]]

Publish(type, n) == PublishOn(channel, type, n)

TimeRow(id, c, u) == [id |-> id, created_at |-> c, updated_at |-> u]

\* created_at / updated_at as a client may put them into TaskInsert / TaskUpdate
\* (has_c / has_u: the key is present).
Stamps(hc, c, hu, u) == [has_c |-> hc, created_at |-> c, has_u |-> hu, updated_at |-> u]

NoStamps == Stamps(FALSE, 0, FALSE, 0)

\* created_at TIMESTAMP WITH TIME ZONE DEFAULT now() NOT NULL (updated_at alike):
\* the default fills a column the statement does not name.
InsertedTimes(id, stamps) ==
    TimeRow(id, IF stamps.has_c THEN stamps.created_at ELSE now,
                IF stamps.has_u THEN stamps.updated_at ELSE now)

\* update_updated_at_column(): NEW.updated_at = now()
TriggerUpdatedAt(updated_at) == now

\* UPDATE of a tasks row: the SET list, then BEFORE UPDATE update_tasks_updated_at
UpdatedTimes(old, stamps) ==
    TimeRow(old.id, IF stamps.has_c THEN stamps.created_at ELSE old.created_at,
            TriggerUpdatedAt(IF stamps.has_u THEN stamps.updated_at ELSE old.updated_at))

\* The tasks that go with the projects of a deleted user
CascadeDeleted(u) == {t \in tasks : ~(\E p \in CascadeProjects(u) : p.id = t.project_id)}

\* The remaining tasks that lose their assignee
CascadeUnassigned(u) == {t \in tasks \ CascadeDeleted(u) : t.assignee_id = u}

\* created_at / updated_at of the remaining tasks; SET NULL is an UPDATE and
\* fires update_tasks_updated_at
CascadeTaskTimes(u) ==
    {IF t.id \in {a.id : a \in CascadeUnassigned(u)} THEN UpdatedTimes(t, NoStamps) ELSE t :
        t \in {x \in taskTimes : x.id \notin {d.id : d \in CascadeDeleted(u)}}}

\* adminClient.auth.admin.deleteUser(userId)
DeleteUser(r) ==
    /\ req[r].pc = "deleteUser"
    /\ \E fail \in BOOLEAN :
         LET target == req[r].body.userId
             rq == Failed(Called(req[r], "deleteUser"), fail)
             deleteError == fail \/ target \notin authUsers
         IN IF deleteError
            THEN /\ req' = [req EXCEPT ![r] = Respond(rq, 400, "deleteError")]
                 /\ UNCHANGED <<authUsers, profiles, userRoles>>
                 /\ UNCHANGED <<projects, projectMembers, tasks, notifications, emailLogs>>
                 /\ UNCHANGED <<taskTimes, channel>>
            ELSE /\ authUsers' = authUsers \ {target}
                 /\ userRoles' = CascadeRoles(target)
                 /\ profiles' = CascadeProfiles(target)
                 /\ projects' = CascadeProjects(target)
                 /\ projectMembers' = CascadeMembers(target)
                 /\ tasks' = CascadeTasks(target)
                 /\ taskTimes' = CascadeTaskTimes(target)
                 /\ channel' = PublishOn(Publish("DELETE", Cardinality(CascadeDeleted(target))),
                                         "UPDATE", Cardinality(CascadeUnassigned(target)))
                 /\ notifications' = CascadeNotifications(target)
                 /\ emailLogs' = CascadeEmailLogs(target)
                 /\ req' = [req EXCEPT ![r] = Respond([rq EXCEPT !.acted = TRUE], 200, "")]
    /\ UNCHANGED <<nextUserId, nextTaskId, settingsVars, session, cache, op>>
    /\ UNCHANGED <<mreq, emailsSent>>
    /\ UNCHANGED <<accessVars, now, query, cacheVars, storageVars, pageVars>>

\* adminClient.auth.admin.createUser({...}); handle_new_user() runs in the insert
CreateUser(r) ==
    /\ req[r].pc = "createUser"
    /\ \E fail \in BOOLEAN :
         LET rq == Failed(Called(req[r], "createUser"), fail)
             id == nextUserId
         IN IF fail
            THEN /\ req' = [req EXCEPT ![r] = Respond(rq, 400, "createError")]
                 /\ UNCHANGED <<authUsers, nextUserId, profiles, userRoles>>
            ELSE /\ id \in Users
                 /\ authUsers' = authUsers \cup {id}
                 /\ nextUserId' = id + 1
                 /\ profiles' = NewUserProfiles(id)
                 /\ userRoles' = NewUserRoles(id)
                 /\ req' = [req EXCEPT ![r] =
                              IF rq.body.role = "admin"
                              THEN [rq EXCEPT !.pc = "updateRole", !.newUser = id,
                                              !.acted = TRUE]
                              ELSE Respond([rq EXCEPT !.newUser = id, !.acted = TRUE],
                                           200, "")]
    /\ UNCHANGED <<projectVars, settingsVars, taskVars, mailVars>>
    /\ UNCHANGED extVars

\* A handler that answers 400 when the role update of the new user fails.
RoleUpdateStatus_Fails(updateRoleError) == IF updateRoleError THEN 400 ELSE 200

\* if (updateRoleError) { console.error(...) }, then the 200 response
RoleUpdateStatus(updateRoleError) == 200

\* adminClient.from('user_roles').update({ role: 'admin' }).eq('user_id', newUser.user.id)
\* (its error is only logged)
UpdateNewUserRole(r) ==
    /\ req[r].pc = "updateRole"
    /\ \E fail \in BOOLEAN :
         LET rq == Failed(Called(req[r], "updateRole"), fail)
         IN /\ userRoles' =
                 IF fail THEN userRoles
                 ELSE {IF row.user_id = rq.newUser THEN RoleRow(row.user_id, "admin")
                       ELSE row : row \in userRoles}
            /\ req' = [req EXCEPT ![r] = Respond(rq, RoleUpdateStatus(fail), "")]
    /\ UNCHANGED <<authUsers, nextUserId, profiles>>
    /\ UNCHANGED <<projectVars, settingsVars, taskVars, mailVars>>
    /\ UNCHANGED extVars

\* The query keys of the role and project-member queries:
\* ['user-role', userId], ['project-members', projectId], ['all-project-members']
QueryKeys ==
    {<<"user-role", u>> : u \in Users}
        \cup {<<"project-members", p>> : p \in ProjectIds}
        \cup {<<"all-project-members">>}

\* A query of a browser's QueryClient: not cached, cached and fresh, or invalidated.
CachedQuery(status, data) == [status |-> status, data |-> data]

NoCache == [k \in QueryKeys |-> CachedQuery("absent", {})]

\* What the queryFn of a key selects; every signed-in user may read user_roles
\* and project_members ("Everyone can view ...", USING (true)).
ServerValue(key) ==
    IF key[1] = "user-role"
    THEN {row.role : row \in {x \in userRoles : x.user_id = key[2]}}
    ELSE IF key[1] = "project-members"
         THEN {pm.user_id : pm \in {x \in projectMembers : x.project_id = key[2]}}
         ELSE projectMembers

\* The query filter of invalidateQueries({ queryKey }): the filter key is a
\* prefix of the query's key.
KeyMatches(filter, key) ==
    /\ Len(filter) <= Len(key)
    /\ \A i \in 1..Len(filter) : filter[i] = key[i]

\* queryClient.invalidateQueries({ queryKey: filter }) for each filter, in the
\* browser whose cached queries are qc.
InvalidateQueries(qc, filters) ==
    [k \in QueryKeys |->
        IF qc[k].status = "fresh" /\ \E f \in filters : KeyMatches(f, k)
        THEN CachedQuery("invalidated", qc[k].data)
        ELSE qc[k]]

\* useUpdateUserRole, from the browser of `actor`, under the policy
\* "Only admins can update roles"
UpdateUserRole(actor, userId, role) ==
    /\ actor \in authUsers
    /\ is_admin(actor)
    /\ \E row \in userRoles : row.user_id = userId
    /\ userRoles' = {IF row.user_id = userId THEN RoleRow(row.user_id, role)
                     ELSE row : row \in userRoles}
    /\ qcache' = [qcache EXCEPT ![actor] =
                     InvalidateQueries(@, {<<"users">>, <<"userRole">>})]
    /\ UNCHANGED <<authUsers, nextUserId, profiles, req>>
    /\ UNCHANGED <<projectVars, settingsVars, taskVars, mailVars>>
    /\ UNCHANGED <<accessVars, stampVars, realtimeVars, storageVars, pageVars>>

-----------------------------------------------------------------------------
(* notification_settings and useUpdateNotificationSettings *)

\* A notification_settings row.  The two project_invite flags are not read by
\* any decision and are left out.
SettingsRow(u, ea, eu, ia, iu) ==
    [user_id |-> u, email_task_assigned |-> ea, email_task_updated |-> eu,
     in_app_task_assigned |-> ia, in_app_task_updated |-> iu]

\* data = null of .maybeSingle()
NoSettings == SettingsRow(NULL, TRUE, TRUE, TRUE, TRUE)

\* The switch positions a Settings page submits.
SettingsInputs == [email_task_assigned : BOOLEAN, email_task_updated : BOOLEAN,
                   in_app_task_assigned : BOOLEAN, in_app_task_updated : BOOLEAN]

\* .maybeSingle(): the row, null when there is none, an error when several.
MaybeSingle(rows, none) ==
    IF rows = {} THEN [error |-> FALSE, data |-> none]
    ELSE IF Cardinality(rows) = 1
         THEN [error |-> FALSE, data |-> CHOOSE x \in rows : TRUE]
         ELSE [error |-> TRUE, data |-> none]

\* policy "Users can view their own settings" (also the USING of the update policy)
SettingsVisible(uid, row) == uid = row.user_id

\* from('notification_settings').select('*').eq('user_id', userId), as user uid
SelectSettings(uid, userId) ==
    {row \in notificationSettings : row.user_id = userId /\ SettingsVisible(uid, row)}

\* The same query with the service-role key, which bypasses row-level security.
SelectSettingsService(userId) ==
    {row \in notificationSettings : row.user_id = userId}

IdleSave == [pc |-> "idle", uid |-> NULL, userId |-> NULL,
             settings |-> [email_task_assigned |-> TRUE, email_task_updated |-> TRUE,
                           in_app_task_assigned |-> TRUE, in_app_task_updated |-> TRUE],
             existing |-> FALSE, outcome |-> "pending"]

\* mutationFn({ userId, settings }): the call, up to its first await
StartSaveSettings(k, uid) ==
    /\ sav[k].pc = "idle"
    /\ uid \in authUsers
    /\ \E settings \in SettingsInputs :
         sav' = [sav EXCEPT ![k] = [IdleSave EXCEPT !.pc = "check", !.uid = uid,
                                                   !.userId = uid,
                                                   !.settings = settings]]
    /\ UNCHANGED <<adminVars, projectVars, notificationSettings, taskVars, mailVars>>
    /\ UNCHANGED extVars

\* select('id').eq('user_id', userId).maybeSingle()
CheckExistingSettings(k) ==
    /\ sav[k].pc = "check"
    /\ LET res == MaybeSingle(SelectSettings(sav[k].uid, sav[k].userId), NoSettings)
       IN sav' = [sav EXCEPT ![k].pc = "write",
                             ![k].existing = (res.data # NoSettings)]
    /\ UNCHANGED <<adminVars, projectVars, notificationSettings, taskVars, mailVars>>
    /\ UNCHANGED extVars

\* update(settings).eq('user_id', userId).select().single(), or
\* insert({ user_id: userId, ...settings }).select().single()
WriteSettings(k) ==
    /\ sav[k].pc = "write"
    /\ LET sv == sav[k]
           new == SettingsRow(sv.userId, sv.settings.email_task_assigned,
                              sv.settings.email_task_updated,
                              sv.settings.in_app_task_assigned,
                              sv.settings.in_app_task_updated)
           matched == SelectSettings(sv.uid, sv.userId)
       IN IF sv.existing
          THEN IF matched = {}
               THEN /\ sav' = [sav EXCEPT ![k].pc = "done", ![k].outcome = "rejected"]
                    /\ UNCHANGED notificationSettings
               ELSE /\ notificationSettings' = (notificationSettings \ matched) \cup {new}
                    /\ sav' = [sav EXCEPT ![k].pc = "done", ![k].outcome = "resolved"]
          ELSE IF SelectSettingsService(sv.userId) # {} \/ sv.uid # sv.userId
               THEN /\ sav' = [sav EXCEPT ![k].pc = "done", ![k].outcome = "rejected"]
                    /\ UNCHANGED notificationSettings
               ELSE /\ notificationSettings' = notificationSettings \cup {new}
                    /\ sav' = [sav EXCEPT ![k].pc = "done", ![k].outcome = "resolved"]
    /\ UNCHANGED <<adminVars, projectVars, taskVars, mailVars>>
    /\ UNCHANGED extVars

-----------------------------------------------------------------------------
(* Tasks: useTasks, useCreateTask, useUpdateTask and createTaskNotification *)

\* task_status
Statuses == {"PENDING", "IN_PROGRESS", "IN_REVIEW", "DONE"}

\* The statuses the forms and the board submit in this model.
InputStatuses == {"PENDING", "IN_PROGRESS"}

ProjectRow(id, owner) == [id |-> id, owner_id |-> owner]

MemberRow(p, u) == [project_id |-> p, user_id |-> u]

TaskRow(id, p, a, st) == [id |-> id, project_id |-> p, assignee_id |-> a, status |-> st]

\* data = null of a failed insert/update
NoTask == TaskRow(NULL, NULL, NULL, "null")

\* policy "Users can view tasks they have access to"
TaskVisible(uid, t) ==
    \/ t.assignee_id = uid
    \/ \E p \in projects :
         /\ p.id = t.project_id
         /\ \/ p.owner_id = uid
            \/ \E pm \in projectMembers : pm.project_id = p.id /\ pm.user_id = uid
    \/ is_admin(uid)

\* policies "Only admins can create tasks" / "Only admins can update tasks"
TaskWritable(uid) == is_admin(uid)

\* policy "Admins and system can create notifications"
NotificationInsertable(uid, row) == uid \in authUsers /\ row.user_id # NULL

\* A TaskUpdate: has_a / has_s say which keys the object carries.
Updates(ha, a, hs, st) == [has_a |-> ha, assignee_id |-> a, has_s |-> hs, status |-> st]

IdleOp ==
    [kind |-> "none", pc |-> "idle", uid |-> NULL,
     task |-> NoTask, id |-> NULL, updates |-> Updates(FALSE, NULL, FALSE, "null"),
     previousAssigneeId |-> NULL,
     data |-> NoTask, before |-> NoTask, committed |-> FALSE,
     nUserId |-> NULL, nType |-> "none", stored |-> NoSettings,
     settings |-> NoSettings, shouldShowInApp |-> FALSE,
     inAppChecks |-> 0, emailChecks |-> 0, inserted |-> 0,
     lookupFailed |-> FALSE, insertFailed |-> FALSE,
     outcome |-> "pending", result |-> NoTask]

\* useTasks queryFn: select('*') from tasks, under the select policy
Fetch(c) ==
    /\ op[c].pc = "idle"
    /\ session[c] \in authUsers
    /\ cache' = [cache EXCEPT ![c] = {t \in tasks : TaskVisible(session[c], t)}]
    /\ cache'[c] # cache[c]
    /\ UNCHANGED <<adminVars, projectVars, settingsVars, mailVars>>
    /\ UNCHANGED <<tasks, nextTaskId, notifications, session, op>>
    /\ UNCHANGED extVars

\* Tasks.handleCreateTask -> createTask.mutateAsync({...})
HandleCreateTask(c) ==
    /\ op[c].pc = "idle"
    /\ session[c] \in authUsers
    /\ \E p \in projects, a \in Users \cup {NULL}, st \in InputStatuses :
         op' = [op EXCEPT ![c] =
                  [IdleOp EXCEPT !.kind = "create", !.pc = "mutate",
                                 !.uid = session[c],
                                 !.task = TaskRow(NULL, p.id, a, st)]]
    /\ UNCHANGED <<adminVars, projectVars, settingsVars, mailVars>>
    /\ UNCHANGED <<tasks, nextTaskId, notifications, session, cache>>
    /\ UNCHANGED extVars

\* Tasks.handleEditTask -> updateTask.mutateAsync({ id, updates, previousAssigneeId })
HandleEditTask(c) ==
    /\ op[c].pc = "idle"
    /\ session[c] \in authUsers
    /\ \E editingTask \in cache[c], a \in Users \cup {NULL}, st \in InputStatuses :
         \* TaskFormDialog starts from task.assignee_id and its select offers only
         \* users, so the form submits null only for a task it saw unassigned
         /\ a = NULL => editingTask.assignee_id = NULL
         /\ op' = [op EXCEPT ![c] =
                  [IdleOp EXCEPT !.kind = "update", !.pc = "mutate",
                                 !.uid = session[c],
                                 !.id = editingTask.id,
                                 !.updates = Updates(TRUE, a, TRUE, st),
                                 !.previousAssigneeId = editingTask.assignee_id]]
    /\ UNCHANGED <<adminVars, projectVars, settingsVars, mailVars>>
    /\ UNCHANGED <<tasks, nextTaskId, notifications, session, cache>>
    /\ UNCHANGED extVars

\* KanbanBoard.handleDragEnd -> updateTask.mutateAsync({ id, updates: { status }, ... })
HandleDragEnd(c) ==
    /\ op[c].pc = "idle"
    /\ session[c] \in authUsers
    /\ \E draggedTask \in cache[c], newStatus \in InputStatuses :
         /\ newStatus # draggedTask.status
         /\ op' = [op EXCEPT ![c] =
                     [IdleOp EXCEPT !.kind = "update", !.pc = "mutate",
                                    !.uid = session[c],
                                    !.id = draggedTask.id,
                                    !.updates = Updates(FALSE, NULL, TRUE, newStatus),
                                    !.previousAssigneeId = draggedTask.assignee_id]]
    /\ UNCHANGED <<adminVars, projectVars, settingsVars, mailVars>>
    /\ UNCHANGED <<tasks, nextTaskId, notifications, session, cache>>
    /\ UNCHANGED extVars

\* settings?.in_app_task_assigned ?? true, and the like
Flag(settings, name) == IF settings = NoSettings THEN TRUE ELSE settings[name]

\* const shouldShowInApp = type === 'assigned' ? ... : ...
ShouldShowInApp(type, settings) ==
    IF type = "assigned"
    THEN Flag(settings, "in_app_task_assigned")
    ELSE Flag(settings, "in_app_task_updated")

\* A mutation that goes on to notify after a failed write.
MutationThrows_Never(error) == FALSE

\* if (error) throw error;
MutationThrows(error) == error

\* if (task.assignee_id)
CreateNotifies(task) == task.assignee_id # NULL

\* if (updates.assignee_id && updates.assignee_id !== previousAssigneeId)
AssigneeChanged(updates, previousAssigneeId) ==
    /\ updates.has_a
    /\ updates.assignee_id # NULL
    /\ updates.assignee_id # previousAssigneeId

\* else if (updates.status && previousAssigneeId)
StatusUpdated(updates, previousAssigneeId) ==
    updates.has_s /\ previousAssigneeId # NULL

\* A createTaskNotification that throws when one of its backend calls fails.
NotifyOutcome_Throws(failed) == IF failed THEN "rejected" ELSE "resolved"

\* createTaskNotification reads no error of its two backend calls and has no
\* throw: the awaiting mutationFn goes on to `return data`.
NotifyOutcome(failed) == "resolved"

\* await createTaskNotification(userId, data.id, data.title, type)
StartNotify(o, userId, type) ==
    [o EXCEPT !.pc = "settings", !.nUserId = userId, !.nType = type]

\* return data (or the rejection of the awaited createTaskNotification)
Finish(o) ==
    LET out == NotifyOutcome(o.lookupFailed \/ o.insertFailed)
    IN [o EXCEPT !.pc = "done", !.outcome = out,
                 !.result = IF out = "resolved" THEN o.data ELSE NoTask]

Reject(o) == [o EXCEPT !.pc = "done", !.outcome = "rejected"]

\* useCreateTask.mutationFn: from('tasks').insert(task).select().single()
InsertTask(c) ==
    /\ op[c].pc = "mutate"
    /\ op[c].kind = "create"
    /\ \E fail \in BOOLEAN :
         LET o == op[c]
             row == [o.task EXCEPT !.id = nextTaskId]
             error == \/ fail
                      \/ ~TaskWritable(o.uid)
                      \/ ~(\E p \in projects : p.id = row.project_id)
                      \/ row.assignee_id \notin authUsers \cup {NULL}
             after == [o EXCEPT !.data = IF error THEN NoTask ELSE row,
                                !.committed = ~error]
         IN /\ ~error => nextTaskId \in TaskIds
            /\ tasks' = IF error THEN tasks ELSE tasks \cup {row}
            /\ nextTaskId' = IF error THEN nextTaskId ELSE nextTaskId + 1
            /\ taskTimes' = IF error THEN taskTimes
                            ELSE taskTimes \cup {InsertedTimes(row.id, NoStamps)}
            /\ channel' = IF error THEN channel ELSE Publish("INSERT", 1)
            /\ op' = [op EXCEPT ![c] =
                        IF MutationThrows(error) THEN Reject(after)
                        ELSE IF CreateNotifies(o.task)
                             THEN StartNotify(after, o.task.assignee_id, "assigned")
                             ELSE Finish(after)]
    /\ UNCHANGED <<adminVars, projectVars, settingsVars, mailVars>>
    /\ UNCHANGED <<notifications, session, cache>>
    /\ UNCHANGED <<accessVars, now, query, cacheVars, storageVars, pageVars>>

\* useUpdateTask.mutationFn: from('tasks').update(updates).eq('id', id).select().single()
UpdateTask(c) ==
    /\ op[c].pc = "mutate"
    /\ op[c].kind = "update"
    /\ \E fail \in BOOLEAN :
         LET o == op[c]
             matched == {t \in tasks : t.id = o.id /\ TaskWritable(o.uid)}
             error == \/ fail
                      \/ matched = {}
                      \/ (o.updates.has_a /\ o.updates.assignee_id \notin authUsers \cup {NULL})
             old == IF error THEN NoTask ELSE CHOOSE t \in matched : TRUE
             new == [old EXCEPT
                       !.assignee_id = IF o.updates.has_a THEN o.updates.assignee_id ELSE @,
                       !.status = IF o.updates.has_s THEN o.updates.status ELSE @]
             after == [o EXCEPT !.data = IF error THEN NoTask ELSE new,
                                !.before = old,
                                !.committed = ~error]
         IN /\ tasks' = IF error THEN tasks ELSE (tasks \ matched) \cup {new}
            /\ taskTimes' = IF error THEN taskTimes
                            ELSE {IF t.id = o.id THEN UpdatedTimes(t, NoStamps) ELSE t
                                  : t \in taskTimes}
            /\ channel' = IF error THEN channel ELSE Publish("UPDATE", 1)
            /\ op' = [op EXCEPT ![c] =
                        IF MutationThrows(error) THEN Reject(after)
                        ELSE IF AssigneeChanged(o.updates, o.previousAssigneeId)
                             THEN StartNotify(after, o.updates.assignee_id, "assigned")
                             ELSE IF StatusUpdated(o.updates, o.previousAssigneeId)
                                  THEN StartNotify(after, o.previousAssigneeId, "updated")
                                  ELSE Finish(after)]
    /\ UNCHANGED <<adminVars, projectVars, settingsVars, mailVars>>
    /\ UNCHANGED <<nextTaskId, notifications, session, cache>>
    /\ UNCHANGED <<accessVars, now, query, cacheVars, storageVars, pageVars>>

\* createTaskNotification: from('notification_settings').select('*')
\*   .eq('user_id', userId).maybeSingle(), then shouldShowInApp
LookupSettings(c) ==
    /\ op[c].pc = "settings"
    /\ \E fail \in BOOLEAN :
         LET o == op[c]
             res == IF fail THEN NoSettings
                    ELSE MaybeSingle(SelectSettings(o.uid, o.nUserId), NoSettings).data
             show == ShouldShowInApp(o.nType, res)
             after == [o EXCEPT !.settings = res,
                                !.stored = MaybeSingle(SelectSettingsService(o.nUserId),
                                                       NoSettings).data,
                                !.shouldShowInApp = show,
                                !.inAppChecks = @ + 1,
                                !.lookupFailed = fail]
         IN op' = [op EXCEPT ![c] =
                     IF show THEN [after EXCEPT !.pc = "insert"] ELSE Finish(after)]
    /\ UNCHANGED <<adminVars, projectVars, settingsVars, mailVars>>
    /\ UNCHANGED <<tasks, nextTaskId, notifications, session, cache>>
    /\ UNCHANGED extVars

\* createTaskNotification: from('notifications').insert(notificationData)
InsertNotification(c) ==
    /\ op[c].pc = "insert"
    /\ \E fail \in BOOLEAN :
         LET o == op[c]
             row == [user_id |-> o.nUserId,
                     type |-> IF o.nType = "assigned" THEN "TASK_ASSIGNED"
                              ELSE "TASK_UPDATED",
                     related_id |-> o.data.id,
                     by |-> c]
             error == \/ fail
                      \/ ~NotificationInsertable(o.uid, row)
                      \/ row.user_id \notin authUsers
             after == [o EXCEPT !.insertFailed = error,
                                !.inserted = IF error THEN @ ELSE @ + 1]
         IN /\ notifications' = IF error THEN notifications
                                ELSE notifications \cup {row}
            /\ op' = [op EXCEPT ![c] = Finish(after)]
    /\ UNCHANGED <<adminVars, projectVars, settingsVars, mailVars>>
    /\ UNCHANGED <<tasks, nextTaskId, session, cache>>
    /\ UNCHANGED extVars

-----------------------------------------------------------------------------
(* The send-task-notification edge function *)

\* TaskNotificationRequest (json = FALSE: req.json() throws)
MailBody(j, u, ty) == [json |-> j, userId |-> u, type |-> ty]

MailBodies ==
    {MailBody(FALSE, NULL, "assigned")}
        \cup {MailBody(TRUE, u, ty) : u \in Users, ty \in {"assigned", "updated"}}

NoProfile == [user_id |-> NULL, email |-> NULL, name |-> NULL]

IdleMailReq ==
    [pc |-> "idle", body |-> MailBody(FALSE, NULL, "assigned"),
     profile |-> NoProfile, settings |-> NoSettings, stored |-> NoSettings,
     shouldSendEmail |-> FALSE, status |-> 0, skipped |-> FALSE, error |-> "",
     upstream |-> FALSE]

MailRespond(rq, status, skipped, error) ==
    [rq EXCEPT !.pc = "done", !.status = status, !.skipped = skipped, !.error = error]

\* A handler that consults the in-app switches for the email decision.
ShouldSendEmail_InApp(type, settings) ==
    IF type = "assigned"
    THEN Flag(settings, "in_app_task_assigned")
    ELSE Flag(settings, "in_app_task_updated")

\* const shouldSendEmail = type === "assigned"
\*   ? (settings?.email_task_assigned ?? true) : (settings?.email_task_updated ?? true)
ShouldSendEmail(type, settings) ==
    IF type = "assigned"
    THEN Flag(settings, "email_task_assigned")
    ELSE Flag(settings, "email_task_updated")

\* const subject = type === "assigned" ? "New Task Assigned to You" : "Task Updated"
Subject(type) == IF type = "assigned" THEN "New Task Assigned to You" ELSE "Task Updated"

\* The request arrives: await req.json()
MailReceive(m) ==
    /\ mreq[m].pc = "idle"
    /\ \E body \in MailBodies :
         LET rq == [IdleMailReq EXCEPT !.body = body]
         IN mreq' = [mreq EXCEPT ![m] =
                       IF ~body.json THEN MailRespond(rq, 500, FALSE, "exception")
                       ELSE [rq EXCEPT !.pc = "profile"]]
    /\ UNCHANGED <<adminVars, projectVars, settingsVars, taskVars, emailsSent, emailLogs>>
    /\ UNCHANGED extVars

\* from("profiles").select("email, name").eq("user_id", userId).single()
MailProfile(m) ==
    /\ mreq[m].pc = "profile"
    /\ \E fail \in BOOLEAN :
         LET found == Single({row \in profiles : row.user_id = mreq[m].body.userId},
                             NoProfile)
             res == IF fail THEN [error |-> TRUE, data |-> NoProfile] ELSE found
             rq == [mreq[m] EXCEPT !.upstream = @ \/ fail]
         IN mreq' = [mreq EXCEPT ![m] =
                       IF res.error \/ res.data = NoProfile
                       THEN MailRespond(rq, 404, FALSE, "User profile not found")
                       ELSE [rq EXCEPT !.pc = "settings", !.profile = res.data]]
    /\ UNCHANGED <<adminVars, projectVars, settingsVars, taskVars, emailsSent, emailLogs>>
    /\ UNCHANGED extVars

\* from("notification_settings").select("*").eq("user_id", userId).maybeSingle()
\* (its error is not read), then shouldSendEmail
MailSettings(m) ==
    /\ mreq[m].pc = "settings"
    /\ \E fail \in BOOLEAN :
         LET userId == mreq[m].body.userId
             res == IF fail THEN NoSettings
                    ELSE MaybeSingle(SelectSettingsService(userId), NoSettings).data
             send == ShouldSendEmail(mreq[m].body.type, res)
             rq == [mreq[m] EXCEPT
                      !.upstream = @ \/ fail,
                      !.settings = res,
                      !.stored = MaybeSingle({row \in notificationSettings :
                                                 row.user_id = userId}, NoSettings).data,
                      !.shouldSendEmail = send]
         IN mreq' = [mreq EXCEPT ![m] =
                       IF ~send
                       THEN MailRespond(rq, 200, TRUE, "")
                       ELSE [rq EXCEPT !.pc = "send"]]
    /\ UNCHANGED <<adminVars, projectVars, settingsVars, taskVars, emailsSent, emailLogs>>
    /\ UNCHANGED extVars

\* resend.emails.send({ from, to: [profile.email], subject, html })
MailSend(m) ==
    /\ mreq[m].pc = "send"
    /\ \E fail \in BOOLEAN :
         LET rq == [mreq[m] EXCEPT !.upstream = @ \/ fail]
             msg == [to |-> rq.profile.email, subject |-> Subject(rq.body.type),
                     by |-> m]
         IN /\ emailsSent' = IF fail THEN emailsSent ELSE emailsSent \cup {msg}
            /\ mreq' = [mreq EXCEPT ![m] = [rq EXCEPT !.pc = "log"]]
    /\ UNCHANGED <<adminVars, projectVars, settingsVars, taskVars, emailLogs>>
    /\ UNCHANGED extVars

\* from("email_logs").insert({ to_user_id, to_email, subject, body }), then 200
MailLog(m) ==
    /\ mreq[m].pc = "log"
    /\ \E fail \in BOOLEAN :
         LET rq == [mreq[m] EXCEPT !.upstream = @ \/ fail]
             row == [to_user_id |-> rq.body.userId, to_email |-> rq.profile.email,
                     subject |-> Subject(rq.body.type), by |-> m]
             error == fail \/ row.to_user_id \notin authUsers
         IN /\ emailLogs' = IF error THEN emailLogs ELSE emailLogs \cup {row}
            /\ mreq' = [mreq EXCEPT ![m] = MailRespond(rq, 200, FALSE, "")]
    /\ UNCHANGED <<adminVars, projectVars, settingsVars, taskVars, emailsSent>>
    /\ UNCHANGED extVars

-----------------------------------------------------------------------------
(* Statements a signed-in browser sends to the REST interface, under the row-level *)
(* policies, defaults and triggers of the migration                                *)

\* The result of a statement: who sent it (and whether that user held the
\* admin role then), on which table, whether it reported an error, whether it
\* changed a row of projects, tasks or user_roles, and the rows a select returned.
StmtResult(uid, table, verb, error, changed, rows) ==
    [uid |-> uid, table |-> table, verb |-> verb,
     admin |-> RoleRow(uid, "admin") \in userRoles,
     error |-> error, changed |-> changed, rows |-> rows]

NoStmt ==
    [uid |-> NULL, table |-> "none", verb |-> "none", admin |-> FALSE,
     error |-> FALSE, changed |-> FALSE, rows |-> {}]

\* A select policy that forgets project members.
ProjectVisible_OwnerOrAdmin(uid, p) == p.owner_id = uid \/ is_admin(uid)

\* policy "Everyone can view projects they are part of"
ProjectVisible(uid, p) ==
    \/ p.owner_id = uid
    \/ \E pm \in projectMembers : pm.project_id = p.id /\ pm.user_id = uid
    \/ is_admin(uid)

\* policies "Only admins can create / update / delete projects"
ProjectWritable(uid) == is_admin(uid)

\* policies "Only admins can add / remove project members"
MemberWritable(uid) == is_admin(uid)

\* policy "Only admins can delete tasks"
TaskDeletable(uid) == is_admin(uid)

\* A policy that lets a user insert a role row for themself.
RoleInsertable_Own(uid, row) == is_admin(uid) \/ row.user_id = uid

\* policy "Only admins can insert roles"
RoleInsertable(uid, row) == is_admin(uid)

\* policies "Only admins can update roles" / "Only admins can delete roles"
RoleWritable(uid) == is_admin(uid)

\* policy "Users can update own profile"
ProfileUpdatable(uid, row) == uid = row.user_id

\* useProjects queryFn: from('projects').select('*')
ProjectsSelect(uid) ==
    /\ uid \in authUsers
    /\ stmt' = StmtResult(uid, "projects", "select", FALSE, FALSE,
                          {p.id : p \in {q \in projects : ProjectVisible(uid, q)}})
    /\ UNCHANGED <<adminVars, projectVars, settingsVars, taskVars, mailVars>>
    /\ UNCHANGED <<nextProjectId, stampVars, realtimeVars, cacheVars, storageVars, pageVars>>

\* from('projects').insert(project).select().single()
ProjectsInsert(uid, owner) ==
    /\ uid \in authUsers
    /\ LET row == ProjectRow(nextProjectId, owner)
           error == ~ProjectWritable(uid) \/ owner \notin authUsers
       IN /\ ~error => nextProjectId \in ProjectIds
          /\ projects' = IF error THEN projects ELSE projects \cup {row}
          /\ nextProjectId' = IF error THEN nextProjectId ELSE nextProjectId + 1
          /\ stmt' = StmtResult(uid, "projects", "insert", error, ~error, {})
    /\ UNCHANGED <<adminVars, projectMembers, settingsVars, taskVars, mailVars>>
    /\ UNCHANGED <<stampVars, realtimeVars, cacheVars, storageVars, pageVars>>

\* from('projects').update(updates).eq('id', id).select().single()
ProjectsUpdate(uid, id, owner) ==
    /\ uid \in authUsers
    /\ LET matched == {p \in projects : p.id = id /\ ProjectWritable(uid)}
           error == matched = {} \/ owner \notin authUsers
           new == {[p EXCEPT !.owner_id = owner] : p \in matched}
       IN /\ projects' = IF error THEN projects ELSE (projects \ matched) \cup new
          /\ stmt' = StmtResult(uid, "projects", "update", error, projects' # projects, {})
    /\ UNCHANGED <<adminVars, projectMembers, settingsVars, taskVars, mailVars>>
    /\ UNCHANGED <<nextProjectId, stampVars, realtimeVars, cacheVars, storageVars, pageVars>>

\* useDeleteProject: from('projects').delete().eq('id', id); project_members
\* and tasks go with the project (ON DELETE CASCADE)
ProjectsDelete(uid, id) ==
    /\ uid \in authUsers
    /\ LET matched == {p \in projects : p.id = id /\ ProjectWritable(uid)}
           ids == {p.id : p \in matched}
           gone == {t \in tasks : t.project_id \in ids}
       IN /\ projects' = projects \ matched
          /\ projectMembers' = {pm \in projectMembers : pm.project_id \notin ids}
          /\ tasks' = tasks \ gone
          /\ taskTimes' = {t \in taskTimes : t.id \notin {g.id : g \in gone}}
          /\ channel' = Publish("DELETE", Cardinality(gone))
          /\ stmt' = StmtResult(uid, "projects", "delete", FALSE, matched # {}, {})
    /\ UNCHANGED <<adminVars, settingsVars, mailVars>>
    /\ UNCHANGED <<nextTaskId, notifications, session, cache, op>>
    /\ UNCHANGED <<nextProjectId, now, query, cacheVars, storageVars, pageVars>>

\* from('project_members').insert(members)
MembersInsert(uid, p, members) ==
    /\ uid \in authUsers
    /\ LET rows == {MemberRow(p, u) : u \in members}
           error == \/ ~MemberWritable(uid)
                    \/ ~(\E q \in projects : q.id = p)
                    \/ ~(members \subseteq authUsers)
                    \/ rows \cap projectMembers # {}
       IN /\ projectMembers' = IF error THEN projectMembers ELSE projectMembers \cup rows
          /\ stmt' = StmtResult(uid, "project_members", "insert", error, FALSE, {})
    /\ UNCHANGED <<adminVars, projects, settingsVars, taskVars, mailVars>>
    /\ UNCHANGED <<nextProjectId, stampVars, realtimeVars, cacheVars, storageVars, pageVars>>

\* from('project_members').delete().eq('project_id', id)
MembersDelete(uid, p) ==
    /\ uid \in authUsers
    /\ LET matched == {pm \in projectMembers : pm.project_id = p /\ MemberWritable(uid)}
       IN /\ projectMembers' = projectMembers \ matched
          /\ stmt' = StmtResult(uid, "project_members", "delete", FALSE, FALSE, {})
    /\ UNCHANGED <<adminVars, projects, settingsVars, taskVars, mailVars>>
    /\ UNCHANGED <<nextProjectId, stampVars, realtimeVars, cacheVars, storageVars, pageVars>>

\* from('tasks').insert(task).select().single(), task: TaskInsert
TasksInsert(uid, task, stamps) ==
    /\ uid \in authUsers
    /\ LET row == [task EXCEPT !.id = nextTaskId]
           error == \/ ~TaskWritable(uid)
                    \/ ~(\E p \in projects : p.id = row.project_id)
                    \/ row.assignee_id \notin authUsers \cup {NULL}
       IN /\ ~error => nextTaskId \in TaskIds
          /\ tasks' = IF error THEN tasks ELSE tasks \cup {row}
          /\ nextTaskId' = IF error THEN nextTaskId ELSE nextTaskId + 1
          /\ taskTimes' = IF error THEN taskTimes
                          ELSE taskTimes \cup {InsertedTimes(row.id, stamps)}
          /\ channel' = IF error THEN channel ELSE Publish("INSERT", 1)
          /\ stmt' = StmtResult(uid, "tasks", "insert", error, ~error,
                                IF error THEN {} ELSE {row.id})
    /\ UNCHANGED <<adminVars, projectVars, settingsVars, mailVars>>
    /\ UNCHANGED <<notifications, session, cache, op>>
    /\ UNCHANGED <<nextProjectId, now, query, cacheVars, storageVars, pageVars>>

\* from('tasks').update(updates).eq('id', id).select().single(), updates: TaskUpdate
TasksUpdate(uid, id, updates, stamps) ==
    /\ uid \in authUsers
    /\ LET matched == {t \in tasks : t.id = id /\ TaskWritable(uid)}
           error == \/ matched = {}
                    \/ (updates.has_a /\ updates.assignee_id \notin authUsers \cup {NULL})
           new == {[t EXCEPT
                      !.assignee_id = IF updates.has_a THEN updates.assignee_id ELSE @,
                      !.status = IF updates.has_s THEN updates.status ELSE @]
                   : t \in matched}
       IN /\ tasks' = IF error THEN tasks ELSE (tasks \ matched) \cup new
          /\ taskTimes' = IF error THEN taskTimes
                          ELSE {IF t.id = id THEN UpdatedTimes(t, stamps) ELSE t
                                : t \in taskTimes}
          /\ channel' = IF error THEN channel ELSE Publish("UPDATE", 1)
          /\ stmt' = StmtResult(uid, "tasks", "update", error, ~error,
                                IF error THEN {} ELSE {id})
    /\ UNCHANGED <<adminVars, projectVars, settingsVars, mailVars>>
    /\ UNCHANGED <<nextTaskId, notifications, session, cache, op>>
    /\ UNCHANGED <<nextProjectId, now, query, cacheVars, storageVars, pageVars>>

\* useDeleteTask: from('tasks').delete().eq('id', id)
TasksDelete(uid, id) ==
    /\ uid \in authUsers
    /\ LET matched == {t \in tasks : t.id = id /\ TaskDeletable(uid)}
       IN /\ tasks' = tasks \ matched
          /\ taskTimes' = {t \in taskTimes : t.id \notin {g.id : g \in matched}}
          /\ channel' = Publish("DELETE", Cardinality(matched))
          /\ stmt' = StmtResult(uid, "tasks", "delete", FALSE, matched # {}, {})
    /\ UNCHANGED <<adminVars, projectVars, settingsVars, mailVars>>
    /\ UNCHANGED <<nextTaskId, notifications, session, cache, op>>
    /\ UNCHANGED <<nextProjectId, now, query, cacheVars, storageVars, pageVars>>

\* from('user_roles').insert({ user_id, role }); UNIQUE (user_id, role)
RolesInsert(uid, userId, role) ==
    /\ uid \in authUsers
    /\ LET row == RoleRow(userId, role)
           error == \/ ~RoleInsertable(uid, row)
                    \/ userId \notin authUsers
                    \/ row \in userRoles
       IN /\ userRoles' = IF error THEN userRoles ELSE userRoles \cup {row}
          /\ stmt' = StmtResult(uid, "user_roles", "insert", error, ~error, {})
    /\ UNCHANGED <<authUsers, nextUserId, profiles, req>>
    /\ UNCHANGED <<projectVars, settingsVars, taskVars, mailVars>>
    /\ UNCHANGED <<nextProjectId, stampVars, realtimeVars, cacheVars, storageVars, pageVars>>

\* from('user_roles').update({ role }).eq('user_id', userId).select().single()
RolesUpdate(uid, userId, role) ==
    /\ uid \in authUsers
    /\ LET matched == {row \in userRoles : row.user_id = userId /\ RoleWritable(uid)}
           error == Cardinality(matched) # 1
           new == {RoleRow(row.user_id, role) : row \in matched}
       IN /\ userRoles' = IF error THEN userRoles ELSE (userRoles \ matched) \cup new
          /\ stmt' = StmtResult(uid, "user_roles", "update", error,
                                userRoles' # userRoles, {})
    /\ UNCHANGED <<authUsers, nextUserId, profiles, req>>
    /\ UNCHANGED <<projectVars, settingsVars, taskVars, mailVars>>
    /\ UNCHANGED <<nextProjectId, stampVars, realtimeVars, cacheVars, storageVars, pageVars>>

\* from('user_roles').delete().eq('user_id', userId)
RolesDelete(uid, userId) ==
    /\ uid \in authUsers
    /\ LET matched == {row \in userRoles : row.user_id = userId /\ RoleWritable(uid)}
       IN /\ userRoles' = userRoles \ matched
          /\ stmt' = StmtResult(uid, "user_roles", "delete", FALSE, matched # {}, {})
    /\ UNCHANGED <<authUsers, nextUserId, profiles, req>>
    /\ UNCHANGED <<projectVars, settingsVars, taskVars, mailVars>>
    /\ UNCHANGED <<nextProjectId, stampVars, realtimeVars, cacheVars, storageVars, pageVars>>

\* The rows of profiles with user_id = userId that the update policy lets uid
\* update.
ProfilesMatched(uid, userId) ==
    {row \in profiles : row.user_id = userId /\ ProfileUpdatable(uid, row)}

\* from('profiles').update(...).eq('user_id', userId).select().single(): the
\* matched rows become `updated`; an error unless exactly one row comes back.
ProfilesUpdate(uid, userId, updated) ==
    LET matched == ProfilesMatched(uid, userId)
        error == Cardinality(matched) # 1
    IN /\ profiles' = IF error THEN profiles ELSE (profiles \ matched) \cup updated
       /\ stmt' = StmtResult(uid, "profiles", "update", error, FALSE,
                             IF error THEN {} ELSE {userId})

\* useUpdateUserProfile mutationFn({ userId, name })
UpdateUserProfile(uid, userId, name) ==
    /\ uid \in authUsers
    /\ ProfilesUpdate(uid, userId,
                      {[row EXCEPT !.name = name] : row \in ProfilesMatched(uid, userId)})
    /\ UNCHANGED <<authUsers, nextUserId, userRoles, req>>
    /\ UNCHANGED <<projectVars, settingsVars, taskVars, mailVars>>
    /\ UNCHANGED <<nextProjectId, stampVars, realtimeVars, cacheVars, storageVars, pageVars>>

\* useUpdateUserStatus mutationFn({ userId, isActive })
UpdateUserStatus(uid, userId, isActive) ==
    /\ uid \in authUsers
    /\ ProfilesUpdate(uid, userId,
                      {[row EXCEPT !.is_active = isActive] : row \in ProfilesMatched(uid, userId)})
    /\ UNCHANGED <<authUsers, nextUserId, userRoles, req>>
    /\ UNCHANGED <<projectVars, settingsVars, taskVars, mailVars>>
    /\ UNCHANGED <<nextProjectId, stampVars, realtimeVars, cacheVars, storageVars, pageVars>>

\* from('notifications').insert({ user_id, type, ... }) sent by uid; user_id is
\* NOT NULL and references auth.users (`by` is the sender here)
NotificationsInsert(uid, userId) ==
    /\ uid \in authUsers
    /\ LET row == [user_id |-> userId, type |-> "TASK_ASSIGNED",
                   related_id |-> NULL, by |-> uid]
           error == ~NotificationInsertable(uid, row) \/ userId \notin authUsers
       IN /\ notifications' = IF error THEN notifications ELSE notifications \cup {row}
          /\ stmt' = StmtResult(uid, "notifications", "insert", error, FALSE, {})
    /\ UNCHANGED <<adminVars, projectVars, settingsVars, mailVars>>
    /\ UNCHANGED <<tasks, nextTaskId, session, cache, op>>
    /\ UNCHANGED <<nextProjectId, stampVars, realtimeVars, cacheVars, storageVars, pageVars>>

\* The latest value now() may take.
MaxClock == 2

\* Time passes on the database server.
Tick ==
    /\ now < MaxClock
    /\ now' = now + 1
    /\ UNCHANGED <<adminVars, projectVars, settingsVars, taskVars, mailVars>>
    /\ UNCHANGED <<accessVars, taskTimes, realtimeVars, cacheVars, storageVars, pageVars>>

-----------------------------------------------------------------------------
(* The cached role and project-member queries of a browser, and the mutations
   that invalidate them *)

\* A useQuery observer of `key` in the browser of user u fetches: on mount, or
\* because the query was invalidated.
QueryFetch(u, key) ==
    /\ u \in authUsers
    /\ qcache[u][key].status # "fresh"
    /\ qcache' = [qcache EXCEPT ![u][key] = CachedQuery("fresh", ServerValue(key))]
    /\ UNCHANGED <<adminVars, projectVars, settingsVars, taskVars, mailVars>>
    /\ UNCHANGED <<accessVars, stampVars, realtimeVars, storageVars, pageVars>>

\* useCreateProject from the browser of uid: insert the project, insert its
\* members if there are any, then onSuccess.  A statement the policies refuse
\* makes mutationFn throw, and onSuccess does not run.
CreateProject(uid, owner, memberIds) ==
    /\ uid \in authUsers
    /\ LET id == nextProjectId
           projectError == ~ProjectWritable(uid) \/ owner \notin authUsers
           membersError == memberIds # {} /\
                              (~MemberWritable(uid) \/ ~(memberIds \subseteq authUsers))
       IN /\ ~projectError => id \in ProjectIds
          /\ projects' = IF projectError THEN projects
                         ELSE projects \cup {ProjectRow(id, owner)}
          /\ nextProjectId' = IF projectError THEN id ELSE id + 1
          /\ projectMembers' = IF projectError \/ membersError THEN projectMembers
                               ELSE projectMembers \cup {MemberRow(id, u) : u \in memberIds}
          /\ qcache' = IF projectError \/ membersError THEN qcache
                       ELSE [qcache EXCEPT ![uid] = InvalidateQueries(@, {<<"projects">>})]
          /\ stmt' = StmtResult(uid, "projects", "useCreateProject",
                                projectError \/ membersError, ~projectError, {})
    /\ UNCHANGED <<adminVars, settingsVars, taskVars, mailVars>>
    /\ UNCHANGED <<stampVars, realtimeVars, storageVars, pageVars>>

\* The request of useUpdateProject that fails upstream (the network, the API
\* gateway), if any.
FailPoints == {"none", "update", "delete", "insert"}

\* useUpdateProject from the browser of uid with memberIds given; owner is
\* NULL for updates = {}, else updates = { owner_id: owner }.  The mutation
\* updates the project when updates has keys, deletes the project's members,
\* inserts the new ones, and throws at the first request that returns an error;
\* onSuccess invalidates the queries.
UpdateProject(uid, id, owner, memberIds, failAt) ==
    /\ uid \in authUsers
    /\ LET matched == {p \in projects : p.id = id /\ ProjectWritable(uid)}
           updateError == owner # NULL /\
                             \/ failAt = "update"
                             \/ matched = {}
                             \/ owner \notin authUsers
           updated == IF owner = NULL \/ updateError THEN projects
                      ELSE (projects \ matched) \cup
                               {[p EXCEPT !.owner_id = owner] : p \in matched}
           deleteError == ~updateError /\ failAt = "delete"
           deleted == IF updateError \/ deleteError THEN {}
                      ELSE {pm \in projectMembers :
                               pm.project_id = id /\ MemberWritable(uid)}
           insertError == ~updateError /\ ~deleteError /\ memberIds # {} /\
                             \/ failAt = "insert"
                             \/ ~MemberWritable(uid)
                             \/ ~(\E p \in projects : p.id = id)
                             \/ ~(memberIds \subseteq authUsers)
           error == updateError \/ deleteError \/ insertError
       IN /\ projects' = updated
          /\ projectMembers' =
                IF error THEN projectMembers \ deleted
                ELSE (projectMembers \ deleted) \cup {MemberRow(id, u) : u \in memberIds}
          /\ qcache' = IF error THEN qcache
                       ELSE [qcache EXCEPT ![uid] =
                               InvalidateQueries(@, {<<"projects">>, <<"project", id>>,
                                                     <<"project-members", id>>})]
          /\ stmt' = StmtResult(uid, "project_members", "useUpdateProject",
                                error, FALSE, {})
    /\ UNCHANGED <<adminVars, settingsVars, taskVars, mailVars>>
    /\ UNCHANGED <<nextProjectId, stampVars, realtimeVars, storageVars, authVars, attachVars>>

\* useUpdateProject called while no project dialog is involved
UpdateProjectCall(uid, id, owner, memberIds, failAt) ==
    /\ UpdateProject(uid, id, owner, memberIds, failAt)
    /\ UNCHANGED dialogVars

\* The edit dialog: `toggled` tells whether toggleMember ran since it opened.
DialogOf(open, project, selectedMembers, toggled) ==
    [open |-> open, project |-> project, selectedMembers |-> selectedMembers,
     toggled |-> toggled]

ClosedDialog == DialogOf(FALSE, NULL, {}, FALSE)

\* const { data: existingMembers = [] } = useProjectMembers(project?.id),
\* mapped to user ids: the cached rows, [] while the query has no data
ExistingMemberIds(uid, id) ==
    LET q == qcache[uid][<<"project-members", id>>]
    IN IF q.status = "absent" THEN {} ELSE q.data

\* Projects.openEditDialog(project), the render that follows and the dialog's
\* effect, which depends on [project, open] only
OpenEditDialog(uid, id) ==
    /\ uid \in authUsers
    /\ ~dialog.open
    /\ \E p \in projects : p.id = id
    /\ dialog' = DialogOf(TRUE, id, ExistingMemberIds(uid, id), FALSE)
    /\ UNCHANGED <<adminVars, projectVars, settingsVars, taskVars, mailVars>>
    /\ UNCHANGED <<accessVars, stampVars, realtimeVars, cacheVars, storageVars>>
    /\ UNCHANGED <<authVars, attachVars>>

\* toggleMember(userId)
ToggleMember(userId) ==
    /\ dialog.open
    /\ dialog' = [dialog EXCEPT !.toggled = TRUE,
                                !.selectedMembers =
                                    IF userId \in @ THEN @ \ {userId} ELSE @ \cup {userId}]
    /\ UNCHANGED <<adminVars, projectVars, settingsVars, taskVars, mailVars>>
    /\ UNCHANGED <<accessVars, stampVars, realtimeVars, cacheVars, storageVars>>
    /\ UNCHANGED <<authVars, attachVars>>

\* handleSubmit -> Projects.handleEdit -> updateProject.mutateAsync({ id,
\* updates: { name, ... }, memberIds: data.members }); the dialog closes.  The
\* updates leave owner_id as it is.
HandleEdit(uid, failAt) ==
    /\ dialog.open
    /\ \E p \in projects :
         /\ p.id = dialog.project
         /\ UpdateProject(uid, p.id, p.owner_id, dialog.selectedMembers, failAt)
    /\ dialog' = [dialog EXCEPT !.open = FALSE]

-----------------------------------------------------------------------------
(* useTasks: the ['tasks'] query and its 'tasks-changes' channel *)

\* A ['tasks'] query: "idle" before useTasks mounts, "stale" when a fetch is
\* due, "fetching" once the select has run and its rows are on the way, "fresh"
\* when they are in the cache.
TasksQuery(status, data) == [status |-> status, data |-> data]

IdleQuery == TasksQuery("idle", {})

\* A subscription to INSERT events only.
EventMatches_InsertOnly(type) == type = "INSERT"

\* { event: '*', schema: 'public', table: 'tasks' }
EventMatches(type) == type \in EventTypes

\* useTasks mounts in client c: the effect subscribes the channel and the
\* query's first fetch is due.
MountTasks(c) ==
    /\ session[c] \in authUsers
    /\ ~channel[c].subscribed
    /\ channel' = [channel EXCEPT ![c] = [subscribed |-> TRUE, pending |-> NoEvents]]
    /\ query' = [query EXCEPT ![c] = TasksQuery("stale", {})]
    /\ UNCHANGED <<adminVars, projectVars, settingsVars, taskVars, mailVars>>
    /\ UNCHANGED <<accessVars, stampVars, cacheVars, storageVars, pageVars>>

\* One of the events client c is owed arrives, in any order; the handler runs
\* queryClient.invalidateQueries({ queryKey: ['tasks'] }), which also cancels a
\* fetch in flight.
DeliverEvent(c, type) ==
    /\ channel[c].subscribed
    /\ channel[c].pending[type] > 0
    /\ channel' = [channel EXCEPT ![c].pending[type] = @ - 1]
    /\ query' = IF EventMatches(type)
                THEN [query EXCEPT ![c] = TasksQuery("stale", {})]
                ELSE query
    /\ UNCHANGED <<adminVars, projectVars, settingsVars, taskVars, mailVars>>
    /\ UNCHANGED <<accessVars, stampVars, cacheVars, storageVars, pageVars>>

\* queryFn: the select runs on the server under the select policy
QueryRead(c) ==
    /\ query[c].status = "stale"
    /\ session[c] \in authUsers
    /\ query' = [query EXCEPT ![c] =
                    TasksQuery("fetching", {t \in tasks : TaskVisible(session[c], t)})]
    /\ UNCHANGED <<adminVars, projectVars, settingsVars, taskVars, mailVars>>
    /\ UNCHANGED <<accessVars, stampVars, channel, cacheVars, storageVars, pageVars>>

\* The rows arrive and become the cached ['tasks'] data.
QuerySettle(c) ==
    /\ query[c].status = "fetching"
    /\ cache' = [cache EXCEPT ![c] = query[c].data]
    /\ query' = [query EXCEPT ![c] = TasksQuery("fresh", {})]
    /\ UNCHANGED <<adminVars, projectVars, settingsVars, mailVars>>
    /\ UNCHANGED <<tasks, nextTaskId, notifications, session, op>>
    /\ UNCHANGED <<accessVars, stampVars, channel, cacheVars, storageVars, pageVars>>

-----------------------------------------------------------------------------
(* The local-storage data layer (lib/storage.ts) *)

MaxStored == 4      \* users the stored array may hold

MaxUuids == 3       \* ids uuidv4() may hand out

\* Ids: 1 is 'admin-001', 2 is 'user-001', 2 + n is the n-th uuid.
StoredIds == 1..(2 + MaxUuids)

\* Email addresses: 1 is admin@example.com, 2 is user@example.com.
Emails == 1..3

StoredRoles == {"ADMIN", "USER"}

StoredUser(id, email, role) == [id |-> id, email |-> email, role |-> role]

defaultAdmin == StoredUser(1, 1, "ADMIN")

demoUser == StoredUser(2, 2, "USER")

\* defaultData.users, and no uuid handed out yet
defaultData == [users |-> <<defaultAdmin, demoUser>>, uuids |-> 0]

\* data.users.findIndex(u => u.id === id); 0 stands for -1
FindIndex(users, id) ==
    IF \E i \in 1..Len(users) : users[i].id = id
    THEN CHOOSE i \in 1..Len(users) :
            /\ users[i].id = id
            /\ \A j \in 1..(i - 1) : users[j].id # id
    ELSE 0

\* data.users.filter(u => u.role === 'ADMIN').length
AdminCount(users) == Cardinality({i \in 1..Len(users) : users[i].role = "ADMIN"})

\* data.users.splice(index, 1)
Splice(users, index) ==
    [i \in 1..(Len(users) - 1) |-> IF i < index THEN users[i] ELSE users[i + 1]]

\* A guard that refuses nothing.
IsLastStoredAdmin_Never(users, index) == FALSE

\* admins.length === 1 && data.users[index].role === 'ADMIN'
IsLastStoredAdmin(users, index) ==
    AdminCount(users) = 1 /\ users[index].role = "ADMIN"

CallResult(fn, id, result, before) ==
    [fn |-> fn, id |-> id, result |-> result, before |-> before]

NoCall == CallResult("none", 0, FALSE, <<>>)

\* deleteUser(id)
deleteUser(id) ==
    LET users == ls.users
        index == FindIndex(users, id)
        refused == index = 0 \/ IsLastStoredAdmin(users, index)
    IN /\ ls' = IF refused THEN ls ELSE [ls EXCEPT !.users = Splice(users, index)]
       /\ lsResult' = CallResult("deleteUser", id, ~refused, users)
       /\ UNCHANGED <<adminVars, projectVars, settingsVars, taskVars, mailVars>>
       /\ UNCHANGED <<accessVars, stampVars, realtimeVars, cacheVars, pageVars>>

\* The body registerUser and createUserByAdmin share: refuse a known email,
\* else push a user with a fresh uuid and save.
PushUser(fn, email, role) ==
    LET users == ls.users
        exists == \E i \in 1..Len(users) : users[i].email = email
        newUser == StoredUser(2 + ls.uuids + 1, email, role)
    IN /\ ~exists => (ls.uuids < MaxUuids /\ Len(users) < MaxStored)
       /\ ls' = IF exists THEN ls
                ELSE [users |-> Append(users, newUser), uuids |-> ls.uuids + 1]
       /\ lsResult' = CallResult(fn, IF exists THEN 0 ELSE newUser.id, ~exists, users)
       /\ UNCHANGED <<adminVars, projectVars, settingsVars, taskVars, mailVars>>
       /\ UNCHANGED <<accessVars, stampVars, realtimeVars, cacheVars, pageVars>>

\* registerUser(email, password, name)
registerUser(email) == PushUser("registerUser", email, "USER")

\* createUserByAdmin(email, password, name, role)
createUserByAdmin(email, role) == PushUser("createUserByAdmin", email, role)

-----------------------------------------------------------------------------
(* AuthProvider: authState, updateAuthState, login, logout, refreshUser *)

MaxCalls == 2       \* updateAuthState calls in one behaviour

CallIds == 1..MaxCalls

\* An AuthUser, as far as the role goes.
AuthUser(id, role) == [id |-> id, role |-> role]

\* user: null
NoAuthUser == AuthUser(NULL, "null")

AuthStateOf(user, sess, isAuthenticated, isLoading, isAdmin) ==
    [user |-> user, session |-> sess, isAuthenticated |-> isAuthenticated,
     isLoading |-> isLoading, isAdmin |-> isAdmin]

\* useState<AuthState>({ user: null, session: null, ..., isLoading: true, ... })
InitialAuthState == AuthStateOf(NoAuthUser, NULL, FALSE, TRUE, FALSE)

\* setAuthState({ user: null, session: null, isAuthenticated: false, ... })
SignedOutState == AuthStateOf(NoAuthUser, NULL, FALSE, FALSE, FALSE)

\* setAuthState({ user: userData, session, isAuthenticated: true,
\*                isLoading: false, isAdmin: userData?.role === 'admin' })
SignedInState(userData, sess) ==
    AuthStateOf(userData, sess, TRUE, FALSE, userData.role = "admin")

\* A fallback that grants the admin role.
RoleOrDefault_Admin(roleData) == IF roleData = NoRoleRow THEN "admin" ELSE roleData.role

\* roleData?.role || 'user'
RoleOrDefault(roleData) == IF roleData = NoRoleRow THEN "user" ELSE roleData.role

\* An updateAuthState(session) call: `token` is the session the request in
\* flight was sent with.
IdleCall == [pc |-> "idle", session |-> NULL, token |-> NULL,
             profileError |-> FALSE, roleError |-> FALSE]

\* updateAuthState(session) with a session: up to the profile request
StartCall(k, sess) ==
    [authCalls EXCEPT ![k] = [IdleCall EXCEPT !.pc = "profile", !.session = sess,
                                              !.token = authSession]]

\* supabase.auth.getSession() resolves, in the mount effect (mount) or in
\* refreshUser: updateAuthState(session), which refreshUser skips without a
\* session.
GetSession(k, mount) ==
    /\ authCalls[k].pc = "idle"
    /\ IF authSession # NULL
       THEN /\ authCalls' = StartCall(k, authSession)
            /\ UNCHANGED authState
       ELSE /\ authState' = IF mount THEN SignedOutState ELSE authState
            /\ UNCHANGED authCalls
    /\ UNCHANGED <<authSession, logoutPc>>
    /\ UNCHANGED <<adminVars, projectVars, settingsVars, taskVars, mailVars>>
    /\ UNCHANGED <<accessVars, stampVars, realtimeVars, cacheVars, storageVars>>
    /\ UNCHANGED <<dialogVars, attachVars>>

\* onAuthStateChange delivers an event other than SIGNED_OUT with a session
\* (INITIAL_SESSION, SIGNED_IN, TOKEN_REFRESHED) and the timer it sets fires.
AuthEvent(k) ==
    /\ authCalls[k].pc = "idle"
    /\ authSession # NULL
    /\ authCalls' = StartCall(k, authSession)
    /\ UNCHANGED <<authState, authSession, logoutPc>>
    /\ UNCHANGED <<adminVars, projectVars, settingsVars, taskVars, mailVars>>
    /\ UNCHANGED <<accessVars, stampVars, realtimeVars, cacheVars, storageVars>>
    /\ UNCHANGED <<dialogVars, attachVars>>

\* login(): signInWithPassword returns a session for user u, then
\* updateAuthState(data.session)
Login(k, u) ==
    /\ authCalls[k].pc = "idle"
    /\ logoutPc = "idle"
    /\ authSession = NULL
    /\ u \in authUsers
    /\ authSession' = u
    /\ authCalls' = [authCalls EXCEPT ![k] =
                       [IdleCall EXCEPT !.pc = "profile", !.session = u, !.token = u]]
    /\ UNCHANGED <<authState, logoutPc>>
    /\ UNCHANGED <<adminVars, projectVars, settingsVars, taskVars, mailVars>>
    /\ UNCHANGED <<accessVars, stampVars, realtimeVars, cacheVars, storageVars>>
    /\ UNCHANGED <<dialogVars, attachVars>>

\* fetchUserData: the profile request returns; without a profile userData is
\* null and updateAuthState sets the state, else the role request is sent.
\* Both tables are readable by authenticated requests only.
ProfileResolved(k, fail) ==
    /\ authCalls[k].pc = "profile"
    /\ LET call == authCalls[k]
           rows == IF call.token = NULL THEN {}
                   ELSE {row \in profiles : row.user_id = call.session}
           error == fail \/ Single(rows, NoProfile).error
       IN IF error
          THEN /\ authState' = SignedInState(NoAuthUser, call.session)
               /\ authCalls' = [authCalls EXCEPT ![k].pc = "done",
                                                 ![k].profileError = TRUE]
          ELSE /\ authCalls' = [authCalls EXCEPT ![k].pc = "role",
                                                 ![k].token = authSession]
               /\ UNCHANGED authState
    /\ UNCHANGED <<authSession, logoutPc>>
    /\ UNCHANGED <<adminVars, projectVars, settingsVars, taskVars, mailVars>>
    /\ UNCHANGED <<accessVars, stampVars, realtimeVars, cacheVars, storageVars>>
    /\ UNCHANGED <<dialogVars, attachVars>>

\* fetchUserData: the role request returns, and updateAuthState sets the state.
RoleResolved(k, fail) ==
    /\ authCalls[k].pc = "role"
    /\ LET call == authCalls[k]
           rows == IF call.token = NULL THEN {}
                   ELSE {row \in userRoles : row.user_id = call.session}
           res == Single(rows, NoRoleRow)
           error == fail \/ res.error
           roleData == IF error THEN NoRoleRow ELSE res.data
           userData == AuthUser(call.session, RoleOrDefault(roleData))
       IN /\ authState' = SignedInState(userData, call.session)
          /\ authCalls' = [authCalls EXCEPT ![k].pc = "done", ![k].roleError = error]
    /\ UNCHANGED <<authSession, logoutPc>>
    /\ UNCHANGED <<adminVars, projectVars, settingsVars, taskVars, mailVars>>
    /\ UNCHANGED <<accessVars, stampVars, realtimeVars, cacheVars, storageVars>>
    /\ UNCHANGED <<dialogVars, attachVars>>

\* logout(): supabase.auth.signOut() drops the session and delivers
\* SIGNED_OUT, whose handler sets the signed-out state.
SignOut ==
    /\ logoutPc = "idle"
    /\ authSession # NULL
    /\ authSession' = NULL
    /\ authState' = SignedOutState
    /\ logoutPc' = "signOut"
    /\ UNCHANGED authCalls
    /\ UNCHANGED <<adminVars, projectVars, settingsVars, taskVars, mailVars>>
    /\ UNCHANGED <<accessVars, stampVars, realtimeVars, cacheVars, storageVars>>
    /\ UNCHANGED <<dialogVars, attachVars>>

\* logout() after its await: setAuthState({ user: null, session: null, ... })
LogoutResume ==
    /\ logoutPc = "signOut"
    /\ authState' = SignedOutState
    /\ logoutPc' = "done"
    /\ UNCHANGED <<authSession, authCalls>>
    /\ UNCHANGED <<adminVars, projectVars, settingsVars, taskVars, mailVars>>
    /\ UNCHANGED <<accessVars, stampVars, realtimeVars, cacheVars, storageVars>>
    /\ UNCHANGED <<dialogVars, attachVars>>

-----------------------------------------------------------------------------
(* Task attachments: useUploadAttachment and useDeleteAttachment *)

MaxAttachments == 2     \* task_attachments ids are 1..MaxAttachments

MaxStamps == 2          \* the values Date.now() takes in a file path

FileNames == {"a.pdf"}

\* `${taskId}/${Date.now()}-${file.name}`
FilePath(taskId, stamp, name) == <<taskId, stamp, name>>

AttachmentRow(id, taskId, path, uid) ==
    [id |-> id, task_id |-> taskId, file_path |-> path, uploaded_by |-> uid]

\* The request of an attachment mutation that fails upstream, if any.
AttachFailPoints == {"none", "storage", "table"}

\* policies "Admins can upload / delete task attachments" on storage.objects
ObjectWritable(uid) == is_admin(uid)

\* policies "Admins can insert / delete task attachments" on task_attachments
AttachmentWritable(uid) == is_admin(uid)

\* useUploadAttachment({ taskId, file, userId }) from the browser of uid:
\* storage upload (no upsert: an existing path is an error), then the insert
\* into task_attachments; the mutation throws at the first error.
UploadAttachment(uid, taskId, stamp, name, failAt) ==
    /\ uid \in authUsers
    /\ nextAttachmentId <= MaxAttachments
    /\ LET path == FilePath(taskId, stamp, name)
           uploadError == \/ failAt = "storage"
                          \/ ~ObjectWritable(uid)
                          \/ path \in objects
           insertError == ~uploadError /\
                             \/ failAt = "table"
                             \/ ~AttachmentWritable(uid)
                             \/ ~(\E t \in tasks : t.id = taskId)
           error == uploadError \/ insertError
       IN /\ objects' = IF uploadError THEN objects ELSE objects \cup {path}
          /\ taskAttachments' =
                IF error THEN taskAttachments
                ELSE taskAttachments \cup
                         {AttachmentRow(nextAttachmentId, taskId, path, uid)}
          /\ nextAttachmentId' = IF error THEN nextAttachmentId ELSE nextAttachmentId + 1
          /\ stmt' = StmtResult(uid, "task_attachments", "useUploadAttachment",
                                error, ~uploadError, {})
    /\ UNCHANGED <<adminVars, projectVars, settingsVars, taskVars, mailVars>>
    /\ UNCHANGED <<nextProjectId, stampVars, realtimeVars, cacheVars, storageVars>>
    /\ UNCHANGED <<authVars, dialogVars>>

\* useDeleteAttachment({ id, filePath, taskId }) for the attachment the list
\* shows under id, from the browser of uid: storage remove, then the delete
\* from task_attachments.  A remove or delete the policies hide from the sender
\* affects nothing and is no error.
DeleteAttachment(uid, id, failAt) ==
    /\ uid \in authUsers
    /\ \E row \in taskAttachments : row.id = id
    /\ LET filePath == (CHOOSE row \in taskAttachments : row.id = id).file_path
           storageError == failAt = "storage"
           removed == IF storageError \/ ~ObjectWritable(uid) THEN {} ELSE {filePath}
           deleteError == ~storageError /\ failAt = "table"
           deleted == IF storageError \/ deleteError \/ ~AttachmentWritable(uid) THEN {}
                      ELSE {row \in taskAttachments : row.id = id}
       IN /\ objects' = objects \ removed
          /\ taskAttachments' = taskAttachments \ deleted
          /\ stmt' = StmtResult(uid, "task_attachments", "useDeleteAttachment",
                                storageError \/ deleteError, objects' # objects, {})
    /\ UNCHANGED nextAttachmentId
    /\ UNCHANGED <<adminVars, projectVars, settingsVars, taskVars, mailVars>>
    /\ UNCHANGED <<nextProjectId, stampVars, realtimeVars, cacheVars, storageVars>>
    /\ UNCHANGED <<authVars, dialogVars>>

-----------------------------------------------------------------------------
(* Initial states and specifications *)

IdleSettings ==
    /\ notificationSettings = {}
    /\ sav = [k \in SaverIds |-> IdleSave]

IdleMail ==
    /\ mreq = [m \in MailIds |-> IdleMailReq]
    /\ emailsSent = {}
    /\ emailLogs = {}

\* No statement was sent, no useTasks hook is mounted, no query is cached and
\* the local storage holds defaultData.
IdleExt ==
    /\ stmt = NoStmt
    /\ now = 0
    /\ channel = [c \in Clients |-> IdleChannel]
    /\ query = [c \in Clients |-> IdleQuery]
    /\ qcache = [u \in Users |-> NoCache]
    /\ ls = defaultData
    /\ lsResult = NoCall
    /\ authState = InitialAuthState
    /\ authSession = NULL
    /\ authCalls = [k \in CallIds |-> IdleCall]
    /\ logoutPc = "idle"
    /\ dialog = ClosedDialog
    /\ taskAttachments = {}
    /\ objects = {}
    /\ nextAttachmentId = 1

\* Some users exist, at least one of them an admin; nothing else has happened.
InitAdmin ==
    /\ authUsers = 1..InitialUsers
    /\ nextUserId = InitialUsers + 1
    /\ profiles = {ProfileRow(u) : u \in 1..InitialUsers}
    /\ \E f \in [1..InitialUsers -> Roles] :
         /\ \E u \in 1..InitialUsers : f[u] = "admin"
         /\ userRoles = {RoleRow(u, f[u]) : u \in 1..InitialUsers}
    /\ req = [r \in ReqIds |-> IdleReq]

\* All users exist; user 1 is the admin and owns project 1, user 2 is a member
\* of it; the project holds one unassigned task.
InitWorkspace ==
    /\ authUsers = Users
    /\ nextUserId = MaxUsers + 1
    /\ profiles = {ProfileRow(u) : u \in Users}
    /\ userRoles = {RoleRow(u, IF u = 1 THEN "admin" ELSE "user") : u \in Users}
    /\ req = [r \in ReqIds |-> IdleReq]
    /\ projects = {ProjectRow(1, 1)}
    /\ projectMembers = {MemberRow(1, u) : u \in {2} \cap Users}
    /\ tasks = {TaskRow(1, 1, NULL, "PENDING")}
    /\ nextTaskId = 2
    /\ notifications = {}
    /\ nextProjectId = 2
    /\ taskTimes = {TimeRow(1, 0, 0)}

Init ==
    /\ InitAdmin
    /\ projects = {}
    /\ projectMembers = {}
    /\ tasks = {}
    /\ nextTaskId = 1
    /\ notifications = {}
    /\ session = [c \in Clients |-> NULL]
    /\ cache = [c \in Clients |-> {}]
    /\ op = [c \in Clients |-> IdleOp]
    /\ IdleSettings
    /\ IdleMail
    /\ nextProjectId = 1
    /\ taskTimes = {}
    /\ IdleExt

Next ==
    \/ \E r \in ReqIds : Receive(r)
    \/ \E r \in ReqIds : GetCurrentUser(r)
    \/ \E r \in ReqIds : CheckCallerRole(r)
    \/ \E r \in ReqIds : ParseBody(r)
    \/ \E r \in ReqIds : CountAdmins(r)
    \/ \E r \in ReqIds : ReadTargetRole(r)
    \/ \E r \in ReqIds : DeleteUser(r)
    \/ \E r \in ReqIds : CreateUser(r)
    \/ \E r \in ReqIds : UpdateNewUserRole(r)
    \/ \E actor \in Users, userId \in Users, role \in Roles :
         UpdateUserRole(actor, userId, role)

\* The admin edge functions and role changes.
Spec == Init /\ [][Next]_vars

NextEdge ==
    \/ \E r \in ReqIds : Receive(r)
    \/ \E r \in ReqIds : GetCurrentUser(r)
    \/ \E r \in ReqIds : CheckCallerRole(r)
    \/ \E r \in ReqIds : ParseBody(r)
    \/ \E r \in ReqIds : CountAdmins(r)
    \/ \E r \in ReqIds : ReadTargetRole(r)
    \/ \E r \in ReqIds : DeleteUser(r)
    \/ \E r \in ReqIds : CreateUser(r)
    \/ \E r \in ReqIds : UpdateNewUserRole(r)

\* The admin edge functions alone: no role is changed from a browser.
SpecEdge == Init /\ [][NextEdge]_vars

\* Client 1 is the admin's browser, the others are any user's; at most one user
\* has saved notification settings.
InitTasks ==
    /\ InitWorkspace
    /\ session \in {f \in [Clients -> Users] : f[1] = 1}
    /\ cache = [c \in Clients |-> {}]
    /\ op = [c \in Clients |-> IdleOp]
    /\ notificationSettings \in
         {{}} \cup {{SettingsRow(u, TRUE, TRUE, ia, iu)} :
                      u \in {1, 2} \cap Users, ia \in BOOLEAN, iu \in BOOLEAN}
    /\ sav = [k \in SaverIds |-> IdleSave]
    /\ IdleMail
    /\ IdleExt

NextTasks ==
    \/ \E c \in Clients : Fetch(c)
    \/ \E c \in Clients : HandleCreateTask(c)
    \/ \E c \in Clients : HandleEditTask(c)
    \/ \E c \in Clients : HandleDragEnd(c)
    \/ \E c \in Clients : InsertTask(c)
    \/ \E c \in Clients : UpdateTask(c)
    \/ \E c \in Clients : LookupSettings(c)
    \/ \E c \in Clients : InsertNotification(c)

\* Browser clients fetching and mutating tasks.
SpecTasks == InitTasks /\ [][NextTasks]_vars

\* A workspace whose one task is already assigned to the project's member, and
\* two browsers signed in as the administrator.
InitReassign ==
    /\ authUsers = Users
    /\ nextUserId = MaxUsers + 1
    /\ profiles = {ProfileRow(u) : u \in Users}
    /\ userRoles = {RoleRow(u, IF u = 1 THEN "admin" ELSE "user") : u \in Users}
    /\ req = [r \in ReqIds |-> IdleReq]
    /\ projects = {ProjectRow(1, 1)}
    /\ projectMembers = {MemberRow(1, u) : u \in {2, 3} \cap Users}
    /\ tasks = {TaskRow(1, 1, 2, "PENDING")}
    /\ nextTaskId = 2
    /\ notifications = {}
    /\ nextProjectId = 2
    /\ taskTimes = {TimeRow(1, 0, 0)}
    /\ session = [c \in Clients |-> 1]
    /\ cache = [c \in Clients |-> {}]
    /\ op = [c \in Clients |-> IdleOp]
    /\ notificationSettings = {}
    /\ sav = [k \in SaverIds |-> IdleSave]
    /\ IdleMail
    /\ IdleExt

\* Two administrator browsers working on a task that has an assignee.
SpecReassign == InitReassign /\ [][NextTasks]_vars

InitMail ==
    /\ authUsers = 1..InitialUsers
    /\ nextUserId = InitialUsers + 1
    /\ profiles = {ProfileRow(u) : u \in 1..InitialUsers}
    /\ userRoles = {RoleRow(u, IF u = 1 THEN "admin" ELSE "user") : u \in 1..InitialUsers}
    /\ req = [r \in ReqIds |-> IdleReq]
    /\ projects = {}
    /\ projectMembers = {}
    /\ tasks = {}
    /\ nextTaskId = 1
    /\ notifications = {}
    /\ session = [c \in Clients |-> NULL]
    /\ cache = [c \in Clients |-> {}]
    /\ op = [c \in Clients |-> IdleOp]
    /\ IdleSettings
    /\ IdleMail
    /\ nextProjectId = 1
    /\ taskTimes = {}
    /\ IdleExt

\* The settings call that runs beside the mail requests.
MailSavers == {1}

NextMail ==
    \/ \E m \in MailIds : MailReceive(m)
    \/ \E m \in MailIds : MailProfile(m)
    \/ \E m \in MailIds : MailSettings(m)
    \/ \E m \in MailIds : MailSend(m)
    \/ \E m \in MailIds : MailLog(m)
    \/ \E k \in MailSavers, uid \in Users : StartSaveSettings(k, uid)
    \/ \E k \in MailSavers : CheckExistingSettings(k)
    \/ \E k \in MailSavers : WriteSettings(k)

\* send-task-notification requests while users save their notification settings.
SpecMail == InitMail /\ [][NextMail]_vars

NextAuth ==
    \/ \E k \in CallIds, mount \in BOOLEAN : GetSession(k, mount)
    \/ \E k \in CallIds : AuthEvent(k)
    \/ \E k \in CallIds, u \in Users : Login(k, u)
    \/ \E k \in CallIds, fail \in BOOLEAN : ProfileResolved(k, fail)
    \/ \E k \in CallIds, fail \in BOOLEAN : RoleResolved(k, fail)
    \/ SignOut
    \/ LogoutResume

\* One browser's AuthProvider: a login, the auth events and session reads that
\* follow it, and a logout.
SpecAuth == InitMail /\ [][NextAuth]_vars

NextSettings ==
    \/ \E k \in SaverIds : StartSaveSettings(k, 2)
    \/ \E k \in SaverIds : CheckExistingSettings(k)
    \/ \E k \in SaverIds : WriteSettings(k)

\* Settings pages of user 2 (two tabs, two devices) saving at the same time,
\* starting without a notification_settings row.
SpecSettings == InitMail /\ [][NextSettings]_vars

\* The workspace with every browser signed out.
InitStatements ==
    /\ InitWorkspace
    /\ session = [c \in Clients |-> NULL]
    /\ cache = [c \in Clients |-> {}]
    /\ op = [c \in Clients |-> IdleOp]
    /\ IdleSettings
    /\ IdleMail
    /\ IdleExt

\* The users whose browsers send statements: the admin and the member.
Senders == {1, 2}

NextAccess ==
    \/ \E uid \in Senders : ProjectsSelect(uid)
    \/ \E uid \in Senders : ProjectsInsert(uid, uid)
    \/ \E uid \in Senders : ProjectsUpdate(uid, 1, 2)
    \/ \E uid \in Senders, id \in ProjectIds : ProjectsDelete(uid, id)
    \/ \E uid \in Senders : MembersInsert(uid, 1, {2})
    \/ \E uid \in Senders : MembersDelete(uid, 1)
    \/ \E uid \in Senders : TasksInsert(uid, TaskRow(NULL, 1, NULL, "PENDING"), NoStamps)
    \/ \E uid \in Senders :
         TasksUpdate(uid, 1, Updates(FALSE, NULL, TRUE, "IN_PROGRESS"), NoStamps)
    \/ \E uid \in Senders : TasksDelete(uid, 1)
    \/ \E uid \in Senders, role \in Roles : RolesInsert(uid, 2, role)
    \/ \E uid \in Senders, role \in Roles : RolesUpdate(uid, 2, role)
    \/ \E uid \in Senders : RolesDelete(uid, 2)
    \/ \E uid \in Senders : UpdateUserProfile(uid, 2, 0)
    \/ \E uid \in Senders : UpdateUserStatus(uid, 2, FALSE)

\* Signed-in browsers sending statements to the REST interface.
SpecAccess == InitStatements /\ [][NextAccess]_vars

\* The created_at / updated_at values a client may put into a statement.
StampInputs ==
    {NoStamps} \cup {Stamps(hc, IF hc THEN t ELSE 0, hu, IF hu THEN t ELSE 0) :
                       hc \in BOOLEAN, hu \in BOOLEAN, t \in {0, MaxClock}}

NextRows ==
    \/ Tick
    \/ \E stamps \in StampInputs :
         TasksInsert(1, TaskRow(NULL, 1, NULL, "PENDING"), stamps)
    \/ \E id \in TaskIds, st \in InputStatuses, stamps \in StampInputs :
         TasksUpdate(1, id, Updates(FALSE, NULL, TRUE, st), stamps)

\* The admin's browser inserting and updating tasks while time passes.
SpecRows == InitStatements /\ [][NextRows]_vars

NextCache ==
    \/ \E key \in QueryKeys : QueryFetch(1, key)
    \/ \E userId \in {1, 2}, role \in Roles : UpdateUserRole(1, userId, role)
    \/ \E memberIds \in {{}, {2}} : CreateProject(1, 1, memberIds)
    \/ \E memberIds \in {{}, {2}, {2, 3}} : UpdateProjectCall(1, 1, NULL, memberIds, "none")

\* The admin's browser caching queries and running the role and project mutations.
SpecCache == InitStatements /\ [][NextCache]_vars

NextMembers ==
    \/ \E uid \in Senders, owner \in {NULL, 1, 2}, memberIds \in SUBSET {2, 3},
          failAt \in FailPoints :
         UpdateProjectCall(uid, 1, owner, memberIds, failAt)
    \/ \E uid \in Senders : ProjectsDelete(uid, 1)
    \/ \E key \in {<<"all-project-members">>, <<"project-members", 1>>} : QueryFetch(1, key)

\* The admin and the member editing project 1 while requests may fail.
SpecMembers == InitStatements /\ [][NextMembers]_vars

NextDialog ==
    \/ OpenEditDialog(1, 1)
    \/ \E userId \in {2, 3} : ToggleMember(userId)
    \/ HandleEdit(1, "none")
    \/ \E key \in {<<"project-members", 1>>, <<"all-project-members">>} : QueryFetch(1, key)

\* The admin editing project 1 in the Projects page, every request succeeding.
SpecDialog == InitStatements /\ [][NextDialog]_vars

NextAttach ==
    \/ \E uid \in Senders, stamp \in 1..MaxStamps, name \in FileNames,
          failAt \in AttachFailPoints :
         UploadAttachment(uid, 1, stamp, name, failAt)
    \/ \E uid \in Senders, id \in 1..MaxAttachments, failAt \in AttachFailPoints :
         DeleteAttachment(uid, id, failAt)

\* The admin and the member uploading and deleting attachments of task 1 while
\* requests may fail.
SpecAttach == InitStatements /\ [][NextAttach]_vars

\* Client c is signed in as user c: client 1 is the admin's browser, client 2
\* the member's.
InitRealtime ==
    /\ InitWorkspace
    /\ session = [c \in Clients |-> c]
    /\ cache = [c \in Clients |-> {}]
    /\ op = [c \in Clients |-> IdleOp]
    /\ IdleSettings
    /\ IdleMail
    /\ IdleExt

MaxPending == 2     \* events a channel may be owed at a time

\* No channel is owed MaxPending events: the next change may be published.
MayPublish ==
    \A c \in Clients :
        channel[c].pending["INSERT"] + channel[c].pending["UPDATE"]
            + channel[c].pending["DELETE"] < MaxPending

\* The browser in which useTasks mounts: the member's.
Observers == {2}

NextRealtime ==
    \/ \E c \in Observers : MountTasks(c)
    \/ \E c \in Clients, type \in EventTypes : DeliverEvent(c, type)
    \/ \E c \in Clients : QueryRead(c)
    \/ \E c \in Clients : QuerySettle(c)
    \/ MayPublish /\ TasksInsert(1, TaskRow(NULL, 1, NULL, "PENDING"), NoStamps)
    \/ \E st \in InputStatuses :
         MayPublish /\ TasksUpdate(1, 1, Updates(FALSE, NULL, TRUE, st), NoStamps)
    \/ \E id \in TaskIds : MayPublish /\ TasksDelete(1, id)

\* Every event a channel is owed arrives, and a fetch that is due runs and settles.
FairRealtime ==
    \A c \in Clients :
        /\ \A type \in EventTypes : WF_vars(DeliverEvent(c, type))
        /\ WF_vars(QueryRead(c))
        /\ WF_vars(QuerySettle(c))

\* Browsers with useTasks mounted while the admin changes tasks.
SpecRealtime == InitRealtime /\ [][NextRealtime]_vars /\ FairRealtime

NextStorage ==
    \/ \E id \in StoredIds : deleteUser(id)
    \/ \E email \in Emails : registerUser(email)
    \/ \E email \in Emails, role \in StoredRoles : createUserByAdmin(email, role)

\* Calls of the local-storage data layer, from defaultData.
SpecStorage == InitStatements /\ [][NextStorage]_vars

NextNotify ==
    \E uid \in Users, userId \in Users \cup {NULL} : NotificationsInsert(uid, userId)

\* Signed-in users inserting notifications through the REST interface.
SpecNotify == InitStatements /\ [][NextNotify]_vars

-----------------------------------------------------------------------------
(* Claims about the admin edge functions, checked under Spec *)

InCalls(rq, call) == \E i \in 1..Len(rq.calls) : rq.calls[i] = call

\* A delete-user request that passed authentication, the admin check and the
\* self-deletion check, and has read the admin rows and the target's role.
PastTargetRead(rq) ==
    /\ rq.kind = "delete"
    /\ InCalls(rq, "targetRole")
    /\ rq.roleData = "admin"
    /\ rq.body.userId # rq.currentUser

\* C1: delete-user by an authenticated admin for another user.  When the
\* handler finds the target to be an admin and at most one admin row, it
\* answers 400 and never calls deleteUser.  When it finds the target to be an
\* admin and at least two admin rows, it calls deleteUser, and once it has
\* answered: either deleteUser succeeded, the answer is 200 and the target is
\* gone, or deleteUser itself reported an error (answered 400).
C1_LastAdminRejectedOtherAdminDeleted ==
    \A r \in ReqIds :
        LET rq == req[r] IN
        (PastTargetRead(rq) /\ rq.targetUserRole = "admin") =>
            /\ rq.admins <= 1 =>
                 /\ rq.pc = "done"
                 /\ rq.status = 400
                 /\ rq.error = "Cannot delete the last admin user"
                 /\ ~InCalls(rq, "deleteUser")
            /\ rq.admins >= 2 =>
                 /\ rq.pc \in {"deleteUser", "done"}
                 /\ rq.pc = "done" =>
                      /\ InCalls(rq, "deleteUser")
                      /\ \/ rq.status = 200 /\ rq.body.userId \notin authUsers
                         \/ rq.status = 400 /\ rq.error = "deleteError"

\* One request was refused as the last admin's deletion while another deleted
\* an admin that was not the last.
C1_Witness ==
    \E r1, r2 \in ReqIds :
        /\ PastTargetRead(req[r1]) /\ req[r1].targetUserRole = "admin"
        /\ req[r1].admins <= 1 /\ req[r1].status = 400
        /\ PastTargetRead(req[r2]) /\ req[r2].targetUserRole = "admin"
        /\ req[r2].admins >= 2 /\ req[r2].status = 200
        /\ req[r2].body.userId \notin authUsers

\* C2: a delete-user request whose userId is the caller's own id never answers
\* 200 and never calls deleteUser, whatever the caller's role; when the caller
\* was found to be an admin the answer is 400 'Cannot delete your own account'.
C2_SelfDeletionRejected ==
    \A r \in ReqIds :
        LET rq == req[r] IN
        (rq.kind = "delete" /\ rq.token.hdr /\ rq.token.sub # NULL
            /\ rq.body.userId = rq.token.sub) =>
            /\ rq.status # 200
            /\ ~InCalls(rq, "deleteUser")
            /\ (rq.pc = "done" /\ InCalls(rq, "roleLookup") /\ rq.roleData = "admin") =>
                 /\ rq.status = 400
                 /\ rq.error = "Cannot delete your own account"

\* An admin asked for their own deletion and was answered 400.
C2_Witness ==
    \E r \in ReqIds :
        /\ req[r].kind = "delete" /\ req[r].pc = "done"
        /\ req[r].roleData = "admin"
        /\ req[r].body.userId = req[r].currentUser
        /\ req[r].currentUser \in authUsers
        /\ req[r].status = 400 /\ req[r].error = "Cannot delete your own account"

\* C3: a create-user request of an authenticated caller whose role lookup did
\* not return 'admin' (role 'user', no row, or a failed lookup) is answered 403
\* and never calls auth.admin.createUser, whatever its body.
C3_CreateNeedsAdmin ==
    \A r \in ReqIds :
        LET rq == req[r] IN
        (rq.kind = "create" /\ InCalls(rq, "roleLookup") /\ rq.roleData # "admin") =>
            /\ rq.pc = "done"
            /\ rq.status = 403
            /\ ~InCalls(rq, "createUser")
            /\ rq.newUser = NULL

\* A user with role 'user' sent a complete body asking for an admin account and
\* was answered 403.
C3_Witness ==
    \E r \in ReqIds :
        /\ req[r].kind = "create" /\ req[r].pc = "done"
        /\ req[r].currentUser # NULL /\ req[r].roleData = "user"
        /\ req[r].body = Body(TRUE, NULL, TRUE, TRUE, TRUE, "admin")
        /\ req[r].status = 403

\* C4: in both handlers the elevated call (createUser / deleteUser) comes only
\* after getUser resolved the token to a user and, after that, the role lookup
\* returned 'admin'; a request whose token is missing or resolves to nobody is
\* answered 401 without any role lookup.
C4_AuthThenRoleThenAction ==
    \A r \in ReqIds :
        LET rq == req[r] IN
        /\ \A i \in 1..Len(rq.calls) :
             rq.calls[i] \in {"createUser", "deleteUser"} =>
                /\ rq.currentUser # NULL
                /\ rq.roleData = "admin"
                /\ \E j, k \in 1..Len(rq.calls) :
                     /\ j < k /\ k < i
                     /\ rq.calls[j] = "getUser"
                     /\ rq.calls[k] = "roleLookup"
        /\ (rq.kind # "none" /\ rq.pc # "getUser" /\ rq.currentUser = NULL) =>
             /\ rq.pc = "done"
             /\ rq.status = 401
             /\ ~InCalls(rq, "roleLookup")

\* One request ran its elevated call after both checks while another, whose
\* token resolved to nobody, was answered 401.
C4_Witness ==
    \E r1, r2 \in ReqIds :
        /\ InCalls(req[r1], "createUser") \/ InCalls(req[r1], "deleteUser")
        /\ req[r1].status = 200
        /\ req[r2].token.hdr /\ req[r2].currentUser = NULL
        /\ req[r2].status = 401


-----------------------------------------------------------------------------
(* Claims about task mutations and their notifications, checked under SpecTasks *)

\* The mutation of client c has settled.
OpDone(c) == op[c].pc = "done" /\ op[c].kind # "none"

\* Neither backend call of createTaskNotification failed for the mutation of c.
NotifyFaultFree(c) == ~op[c].lookupFailed /\ ~op[c].insertFailed

\* The notification rows the mutation of client c inserted.
NotificationsBy(c) == {n \in notifications : n.by = c}

\* C5: when an acting user creates or reassigns a task with a different user as
\* assignee and the mutation is committed, an in-app TASK_ASSIGNED record for
\* the assignee is created iff the assignee's stored in_app_task_assigned flag
\* is true or the assignee has no notification_settings row; an assignee whose
\* stored flag is false gets no record.
C5_InAppGatedByStoredPreference ==
    \A c \in Clients :
        LET o == op[c] IN
        (OpDone(c) /\ o.committed /\ NotifyFaultFree(c)
            /\ o.nType = "assigned" /\ o.nUserId # o.uid) =>
            ((\E n \in NotificationsBy(c) :
                 n.user_id = o.nUserId /\ n.type = "TASK_ASSIGNED")
              <=> Flag(o.stored, "in_app_task_assigned"))

\* C6: for every committed update of a task, also among clients holding stale
\* copies, a TASK_ASSIGNED record for a user U (who has switched nothing off)
\* is created exactly when the update changed the stored assignee from a value
\* other than U to U.
C6_AssignedIffStoredAssigneeChanges ==
    \A c \in Clients, U \in Users :
        LET o == op[c] IN
        (OpDone(c) /\ o.kind = "update" /\ o.committed /\ NotifyFaultFree(c)
            /\ SelectSettingsService(U) = {}) =>
            ((\E n \in NotificationsBy(c) : n.user_id = U /\ n.type = "TASK_ASSIGNED")
              <=> (o.before.assignee_id # U /\ o.data.assignee_id = U))

\* C7: when the preference lookup or the notifications insert fails after the
\* task insert or update was committed, the mutation still resolves with the
\* task, and no step of createTaskNotification changes the tasks table (the
\* committed values are not rolled back).
C7_NotifyFailureKeepsMutation ==
    /\ [](\A c \in Clients :
            (OpDone(c) /\ op[c].committed
                /\ (op[c].lookupFailed \/ op[c].insertFailed)) =>
                /\ op[c].outcome = "resolved"
                /\ op[c].data # NoTask
                /\ op[c].result = op[c].data)
    /\ [][\A c \in Clients :
            (op[c].pc \in {"settings", "insert"} /\ op'[c] # op[c]) =>
                tasks' = tasks]_vars

\* A committed create whose notification insert failed and a committed update
\* whose preference lookup failed both resolved, the rows still in the table.
C7_Witness ==
    \E c, d \in Clients :
        /\ OpDone(c) /\ op[c].kind = "create" /\ op[c].committed
        /\ op[c].insertFailed /\ op[c].outcome = "resolved"
        /\ op[c].data \in tasks
        /\ OpDone(d) /\ op[d].kind = "update" /\ op[d].committed
        /\ op[d].lookupFailed /\ op[d].outcome = "resolved"
        /\ op[d].data \in tasks

\* C8: every notification row belongs to a mutation that was committed before
\* (createTaskNotification runs only for a committed mutation, for the row the
\* mutation returned); a mutation that failed is rejected without any
\* preference lookup and without a notification row.
C8_NotificationOnlyAfterCommit ==
    /\ \A n \in notifications :
         /\ op[n.by].committed
         /\ op[n.by].data # NoTask
         /\ n.related_id = op[n.by].data.id
    /\ \A c \in Clients :
         /\ op[c].pc \in {"settings", "insert"} => op[c].committed
         /\ (OpDone(c) /\ ~op[c].committed) =>
              /\ op[c].outcome = "rejected"
              /\ op[c].inAppChecks = 0
              /\ op[c].inserted = 0
              /\ NotificationsBy(c) = {}

\* A non-admin's update naming an assignee was refused by the row-level policy
\* and left no notification, while a committed mutation left one.
C8_Witness ==
    \E c, d \in Clients :
        /\ OpDone(c) /\ op[c].kind = "update" /\ ~op[c].committed
        /\ ~is_admin(op[c].uid)
        /\ op[c].updates.has_a /\ op[c].updates.assignee_id # NULL
        /\ NotificationsBy(c) = {}
        /\ OpDone(d) /\ op[d].committed /\ NotificationsBy(d) # {}

\* C9: each committed task creation with an assignee makes exactly one in-app
\* eligibility decision and exactly one email eligibility decision.
C9_OneDecisionPerChannel ==
    \A c \in Clients :
        (OpDone(c) /\ op[c].kind = "create" /\ op[c].committed
            /\ op[c].task.assignee_id # NULL) =>
            /\ op[c].inAppChecks = 1
            /\ op[c].emailChecks = 1

-----------------------------------------------------------------------------
(* Claims about send-task-notification, checked under SpecMail *)

\* The messages and the email_logs rows of request m.
SentBy(m) == {e \in emailsSent : e.by = m}

LoggedBy(m) == {l \in emailLogs : l.by = m}

\* C10: for an answered send-task-notification request whose userId has a
\* profile and whose backend calls all succeeded: an email is sent iff the
\* stored flag selected by type (email_task_assigned for 'assigned',
\* email_task_updated otherwise) is true or the user has no settings row; when
\* the flag is false the answer is 200 with skipped, no email is sent and no
\* email_logs row is written; otherwise the answer is 200 with one log row.
\* Nothing but the email flag decides, so the in-app flags have no influence.
C10_EmailGatedByEmailFlag ==
    \A m \in MailIds :
        LET rq == mreq[m]
            flag == \/ rq.stored = NoSettings
                    \/ IF rq.body.type = "assigned"
                       THEN rq.stored.email_task_assigned
                       ELSE rq.stored.email_task_updated
        IN (rq.pc = "done" /\ rq.profile # NoProfile /\ ~rq.upstream) =>
             /\ (SentBy(m) # {}) <=> flag
             /\ rq.status = 200
             /\ rq.skipped <=> ~flag
             /\ ~flag => SentBy(m) = {} /\ LoggedBy(m) = {}
             /\ flag => Cardinality(SentBy(m)) = 1 /\ Cardinality(LoggedBy(m)) = 1

\* One request was skipped for a user whose email flag was off while the
\* in-app flag was on; another was sent for a user whose email flag was on
\* while the in-app flag was off.
C10_Witness ==
    \E m, k \in MailIds :
        /\ mreq[m].pc = "done" /\ ~mreq[m].upstream
        /\ mreq[m].body.type = "assigned"
        /\ mreq[m].stored # NoSettings
        /\ ~mreq[m].stored.email_task_assigned
        /\ mreq[m].stored.in_app_task_assigned
        /\ mreq[m].skipped /\ SentBy(m) = {} /\ LoggedBy(m) = {}
        /\ mreq[k].pc = "done" /\ ~mreq[k].upstream
        /\ mreq[k].body.type = "updated"
        /\ mreq[k].stored # NoSettings
        /\ mreq[k].stored.email_task_updated
        /\ ~mreq[k].stored.in_app_task_updated
        /\ SentBy(k) # {} /\ LoggedBy(k) # {}


-----------------------------------------------------------------------------
(* Further claims about the admin edge functions *)

\* C15: a create-user or delete-user request that is answered with a status
\* other than 200 has carried out no administrative action, and only the step
\* of a request that carries out its action (createUser with its trigger,
\* the role update of the new user, deleteUser) changes auth.users or
\* user_roles: a request answered non-200 left both as they were.
C15_FailedRequestChangesNothing ==
    /\ [](\A r \in ReqIds :
            (req[r].pc = "done" /\ req[r].status # 200) =>
                /\ ~req[r].acted
                /\ req[r].newUser = NULL)
    /\ [][\A r \in ReqIds :
            (req'[r] # req[r]
                /\ <<authUsers, userRoles>>' # <<authUsers, userRoles>>) =>
                /\ req'[r].acted
                /\ req'[r].status \in {0, 200}]_vars

\* One request was answered 400 because deleteUser failed upstream and another
\* 400 because createUser failed upstream; the users are the initial ones.
C15_Witness ==
    \E r1, r2 \in ReqIds :
        /\ req[r1].kind = "delete" /\ req[r1].pc = "done"
        /\ req[r1].status = 400 /\ req[r1].error = "deleteError"
        /\ req[r2].kind = "create" /\ req[r2].pc = "done"
        /\ req[r2].status = 400 /\ req[r2].error = "createError"
        /\ authUsers = 1..InitialUsers
        /\ nextUserId = InitialUsers + 1

C20_AdminRemains == \E u \in authUsers : is_admin(u)

\* Two admins asked for each other's deletion at the same time; both requests
\* were answered 200.
C20_Witness ==
    \E r1, r2 \in ReqIds :
        /\ r1 # r2
        /\ req[r1].kind = "delete" /\ req[r1].status = 200
        /\ req[r2].kind = "delete" /\ req[r2].status = 200
        /\ req[r1].body.userId = req[r2].currentUser
        /\ req[r2].body.userId = req[r1].currentUser


-----------------------------------------------------------------------------
(* Claims about the row-level policies, checked under SpecAccess and SpecRows *)

\* C11: a statement sent by a signed-in user who does not hold the admin role
\* never inserts, updates or deletes a row of projects, tasks or user_roles:
\* every step that changes one of the three tables is the statement of a user
\* who held the admin role when sending it, and a statement of a user without
\* it reports no changed row.
C11_OnlyAdminsWrite ==
    /\ [](~stmt.admin => ~stmt.changed)
    /\ [][<<projects, tasks, userRoles>>' # <<projects, tasks, userRoles>> =>
            \E row \in userRoles :
                row.user_id = stmt'.uid /\ row.role = "admin"]_vars

\* User 2, without the admin role, tried to insert the admin role for
\* themself, and an admin role row for user 2 does not exist.
C11_Witness ==
    /\ stmt.uid = 2
    /\ ~stmt.admin
    /\ stmt.table = "user_roles"
    /\ stmt.verb = "insert"
    /\ stmt.error
    /\ [user_id |-> 2, role |-> "admin"] \notin userRoles

\* C12: a select on projects by user u returns project p iff u is p's owner,
\* or a project_members row (p, u) exists, or u holds the admin role.
C12_ProjectReadableIff ==
    (stmt.table = "projects" /\ stmt.verb = "select") =>
        \A p \in projects :
            p.id \in stmt.rows <=>
                \/ p.owner_id = stmt.uid
                \/ [project_id |-> p.id, user_id |-> stmt.uid] \in projectMembers
                \/ [user_id |-> stmt.uid, role |-> "admin"] \in userRoles

\* User 2 was a member of project 1; the membership row is gone, user 2 is
\* neither owner nor admin, and user 2's select no longer returns the project.
C12_Witness ==
    /\ stmt.table = "projects"
    /\ stmt.verb = "select"
    /\ stmt.uid = 2
    /\ \E p \in projects : p.id = 1 /\ p.owner_id # 2
    /\ [project_id |-> 1, user_id |-> 2] \notin projectMembers
    /\ [user_id |-> 2, role |-> "admin"] \notin userRoles
    /\ 1 \notin stmt.rows

\* C13: whatever created_at or updated_at a client puts into a task insert or
\* update, the stored created_at is the server time of the insert and never
\* changes afterwards, and the stored updated_at is the server time of the
\* last write.
C13_ServerMaintainedTimestamps ==
    [][\A id \in TaskIds :
          LET old == {t \in taskTimes : t.id = id}
              new == {t \in taskTimes' : t.id = id}
          IN /\ (old = {} /\ new # {}) =>
                   \A t \in new : t.created_at = now /\ t.updated_at = now
             /\ (old # {} /\ new # {}) =>
                   \A t \in new : \A o \in old : t.created_at = o.created_at
             /\ (old # {} /\ new # {} /\ stmt'.verb = "update"
                     /\ ~stmt'.error /\ id \in stmt'.rows) =>
                   \A t \in new : t.updated_at = now]_vars

\* An update of a task succeeded after time had passed since its insert.
C13_Witness ==
    /\ stmt.table = "tasks"
    /\ stmt.verb = "update"
    /\ ~stmt.error
    /\ now > 0
    /\ \E t \in taskTimes : t.id \in stmt.rows

\* C14: useUpdateUserProfile and useUpdateUserStatus issued by an admin for
\* another user succeed.
C14_AdminUpdatesOtherProfiles ==
    (stmt.table = "profiles" /\ stmt.verb = "update" /\ stmt.admin) => ~stmt.error

\* The admin's update of user 2's profile was sent.
C14_Witness ==
    /\ stmt.table = "profiles"
    /\ stmt.uid = 1
    /\ stmt.admin
    /\ \E row \in profiles : row.user_id = 2


-----------------------------------------------------------------------------
(* Claims about cache invalidation, checked under SpecCache *)

\* C17: when a mutation of the browser of user 1 (which sends every mutation
\* here) changes what a cached, fresh query would select, that query is
\* invalidated by the same mutation.
C17_MutationInvalidatesDependents ==
    [][\A k \in QueryKeys :
          (qcache[1][k].status = "fresh" /\ ServerValue(k)' # ServerValue(k)) =>
              qcache'[1][k].status = "invalidated"]_vars

\* useUpdateProject replaced the members of project 1 and invalidated the
\* cached ['project-members', 1] query, whose data are the old members.
C17_Witness ==
    /\ qcache[1][<<"project-members", 1>>].status = "invalidated"
    /\ qcache[1][<<"project-members", 1>>].data # ServerValue(<<"project-members", 1>>)


-----------------------------------------------------------------------------
(* Claims about useTasks, checked under SpecRealtime *)

-----------------------------------------------------------------------------
(* Claims about the local-storage data layer, checked under SpecStorage *)

\* C19: deleteUser returns false and leaves the stored users unchanged when
\* its target is the only user with role ADMIN, and so the stored users always
\* include an ADMIN.
C19_LastStoredAdminRemains ==
    /\ \E i \in 1..Len(ls.users) : ls.users[i].role = "ADMIN"
    /\ LET before == lsResult.before
           admins == {i \in 1..Len(before) : before[i].role = "ADMIN"}
       IN (/\ lsResult.fn = "deleteUser"
           /\ Cardinality(admins) = 1
           /\ \E i \in admins : before[i].id = lsResult.id) =>
              /\ ~lsResult.result
              /\ ls.users = before

\* After a second admin was created and deleted again, deleteUser of the one
\* remaining admin was refused.
C19_Witness ==
    /\ lsResult.fn = "deleteUser"
    /\ ~lsResult.result
    /\ ls.uuids > 0
    /\ \E i \in 1..Len(ls.users) :
         /\ ls.users[i].id = lsResult.id
         /\ ls.users[i].role = "ADMIN"
    /\ Cardinality({i \in 1..Len(ls.users) : ls.users[i].role = "ADMIN"}) = 1


-----------------------------------------------------------------------------
(* Claims settled last: the admin functions, roles and notifications *)

\* C24: whenever create-user has answered 200 to a request with role 'admin',
\* the user it created (if not deleted since) has the user_roles row 'admin'.
C24_CreatedAdminHasAdminRole ==
    \A r \in ReqIds :
        (/\ req[r].pc = "done"
         /\ req[r].status = 200
         /\ req[r].body.role = "admin"
         /\ req[r].newUser \in authUsers) =>
            [user_id |-> req[r].newUser, role |-> "admin"] \in userRoles

\* create-user answered 200 to a request with role 'admin' and the new user
\* holds the admin role: the role update succeeded.
C24_Witness ==
    \E r \in ReqIds :
        /\ req[r].pc = "done"
        /\ req[r].status = 200
        /\ req[r].body.role = "admin"
        /\ req[r].newUser \in authUsers
        /\ ~req[r].upstream
        /\ [user_id |-> req[r].newUser, role |-> "admin"] \in userRoles


\* C21: a role change by useUpdateUserRole never takes the admin role from
\* the last remaining admin: a step that is no step of an edge-function
\* request and starts with an admin ends with an admin.
C21_LastAdminNotDemoted ==
    [][(/\ req' = req
        /\ \E row \in userRoles : row.role = "admin") =>
            \E row \in userRoles' : row.role = "admin"]_vars

\* No edge-function request was ever received, every user still exists and
\* none of them is an admin: the last admin was demoted from a browser.
C21_Witness ==
    /\ \A r \in ReqIds : req[r].pc = "idle"
    /\ authUsers = 1..InitialUsers
    /\ \A row \in userRoles : row.role = "user"


\* C29: an insert into notifications sent by a signed-in user who does not
\* hold the admin role is rejected, whatever its user_id.
C29_NonAdminInsertRejected ==
    (stmt.table = "notifications" /\ stmt.verb = "insert" /\ ~stmt.admin) => stmt.error

\* The admin has inserted a notification, and then user 2, without the admin
\* role, sent an insert into notifications.
C29_Witness ==
    /\ stmt.table = "notifications"
    /\ stmt.uid = 2
    /\ ~stmt.admin
    /\ \E n \in notifications : n.by = 1


\* C30: each useUpdateTask call creates at most one notification record, and
\* every TASK_UPDATED record it creates is addressed to the user who is the
\* task's assignee after that update.
C30_UpdatedGoesToAssignee ==
    \A c \in Clients :
        (op[c].pc = "done" /\ op[c].kind = "update") =>
            /\ op[c].inserted <= 1
            /\ Cardinality({n \in notifications : n.by = c}) <= 1
            /\ \A n \in notifications :
                 (n.by = c /\ n.type = "TASK_UPDATED") =>
                     n.user_id = op[c].data.assignee_id


C30_Witness ==
    \E c \in Clients :
        /\ op[c].pc = "done" /\ op[c].kind = "update" /\ op[c].committed
        /\ op[c].previousAssigneeId = 2
        /\ \E n \in notifications : n.by = c /\ n.type = "TASK_UPDATED" /\ n.user_id = 2


\* C25: useUpdateProject is all-or-nothing: a call that rejects leaves the
\* project's row and its project_members rows as they were before the call.
C25_RejectedUpdateChangesNothing ==
    [][(/\ stmt'.verb = "useUpdateProject"
        /\ stmt'.error) =>
            /\ projects' = projects
            /\ projectMembers' = projectMembers]_vars

C25_Witness ==
    /\ stmt.verb = "useUpdateProject"
    /\ stmt.error
    /\ \E p \in projects : p.id = 1
    /\ ~(\E pm \in projectMembers : pm.project_id = 1)


\* C27: however useUpdateNotificationSettings calls for one user interleave,
\* also when they start while the user has no notification_settings row, every
\* call resolves and afterwards the user has exactly one row, which holds the
\* settings of one of the calls.
C27_ConcurrentSavesResolve ==
    \A k \in SaverIds :
        sav[k].pc = "done" =>
            /\ sav[k].outcome = "resolved"
            /\ Cardinality({row \in notificationSettings :
                               row.user_id = sav[k].userId}) = 1

\* Two calls for user 2 both found no row, and both have finished.
C27_Witness ==
    /\ \A k \in SaverIds : sav[k].pc = "done" /\ sav[k].userId = 2 /\ ~sav[k].existing
    /\ Cardinality({row \in notificationSettings : row.user_id = 2}) = 1


-----------------------------------------------------------------------------
(* Claims about AuthProvider, checked under SpecAuth *)

\* C22: once logout() has completed, and with no later login, the auth state
\* stays unauthenticated (user null, session null, isAuthenticated false,
\* isAdmin false), whatever updateAuthState calls are still pending.
C22_LoggedOutStays ==
    logoutPc = "done" =>
        /\ authState.user = NoAuthUser
        /\ authState.session = NULL
        /\ ~authState.isAuthenticated
        /\ ~authState.isAdmin

\* logout() has completed after an updateAuthState call ran to its end.
C22_Witness ==
    /\ logoutPc = "done"
    /\ authSession = NULL
    /\ \E k \in CallIds : authCalls[k].pc = "done"
    /\ ~authState.isAuthenticated

\* C28: in every state of AuthProvider isAdmin implies isAuthenticated and
\* user.role = 'admin', and isAuthenticated holds exactly when session is not
\* null; and an updateAuthState call whose profile or role lookup failed never
\* sets isAdmin.
C28_AuthStateConsistent ==
    /\ [](/\ authState.isAdmin =>
                (authState.isAuthenticated /\ authState.user.role = "admin")
          /\ authState.isAuthenticated <=> (authState.session # NULL))
    /\ [][\A k \in CallIds :
            (/\ authCalls[k].pc # "done"
             /\ authCalls'[k].pc = "done"
             /\ authCalls'[k].profileError \/ authCalls'[k].roleError) =>
                ~authState'.isAdmin]_vars

\* The admin is signed in and shown as admin, after another call of theirs had
\* a lookup fail.
C28_Witness ==
    /\ authState.isAdmin
    /\ authState.session = 1
    /\ \E k \in CallIds :
         authCalls[k].pc = "done" /\ (authCalls[k].profileError \/ authCalls[k].roleError)


-----------------------------------------------------------------------------
(* Claims about the project edit dialog, checked under SpecDialog *)

\* C23: submitting the edit dialog of a project without toggling a team member
\* leaves the project's project_members rows as they were, whether the dialog's
\* initialisation effect ran before or after the project-members query result
\* arrived.
C23_UntoggledSubmitKeepsMembers ==
    [][(/\ dialog.open
        /\ ~dialog.toggled
        /\ ~dialog'.open) =>
            projectMembers' = projectMembers]_vars

\* The dialog was opened with the members query cached and submitted untouched.
C23_Witness ==
    /\ ~dialog.open
    /\ ~dialog.toggled
    /\ dialog.selectedMembers = {2}
    /\ stmt.verb = "useUpdateProject"
    /\ ~stmt.error
    /\ projectMembers = {MemberRow(1, 2)}


-----------------------------------------------------------------------------
(* Claims about task attachments, checked under SpecAttach *)

\* C26: after any sequence of useUploadAttachment and useDeleteAttachment
\* calls, also calls in which the storage request or the table request fails,
\* every task_attachments row refers to an object in the bucket and every
\* object in the bucket has a task_attachments row.
C26_RowsMatchObjects ==
    /\ \A row \in taskAttachments : row.file_path \in objects
    /\ \A path \in objects : \E row \in taskAttachments : row.file_path = path

\* An upload whose two requests succeeded, followed by a rejected upload.
C26_Witness ==
    /\ stmt.verb = "useUploadAttachment"
    /\ stmt.error
    /\ taskAttachments # {}
    /\ \A row \in taskAttachments : row.file_path \in objects
    /\ \A path \in objects : \E row \in taskAttachments : row.file_path = path

====
